---- MODULE Spec2Model ----
(***************************************************************************)
(* Model of the text_processor application: the submission lifecycle       *)
(* (models.py), the pipeline orchestrator and its progressive stage        *)
(* operations (processors.py), the generation client adapter               *)
(* (services.py) and the scored fragment verifier (models.py).             *)
(*                                                                         *)
(* Strings are sequences of one-character strings.  Python's None is the   *)
(* empty tuple and a present value x is <<x>>.  Positions are 0-based as   *)
(* in the source.  Wrapping an error (f"...: {str(e)}") is concatenation.  *)
(* Scores are exact fractions.  The similarity library's metrics and the   *)
(* endpoint's answers are chosen by the environment.  The store is         *)
(* reliable: its only error is the violation of a uniqueness constraint.   *)
(***************************************************************************)
EXTENDS Integers, Sequences, FiniteSets, TLC

\* ---------------------------------------------------------------- bounds
\* Total number of operation invocations explored in one behaviour.
MaxCalls == 2

\* Concurrent callers (request threads).
Procs == {"w1", "w2"}

\* ---------------------------------------------------------------- values
None == << >>
Some(x) == << x >>

\* ---------------------------------------------------------------- strings
Whitespace == {" ", "\n", "\t"}
Digits == {"0", "1", "2", "3", "4", "5", "6", "7", "8", "9"}
Uppers == {"A", "B", "C", "D", "E", "F", "G", "H", "I", "J", "K", "L", "M",
           "N", "O", "P", "Q", "R", "S", "T", "U", "V", "W", "X", "Y", "Z"}
Lowers == {"a", "b", "c", "d", "e", "f", "g", "h", "i", "j", "k", "l", "m",
           "n", "o", "p", "q", "r", "s", "t", "u", "v", "w", "x", "y", "z"}
LowerOf == [c \in Uppers |->
             CASE c = "A" -> "a" [] c = "B" -> "b" [] c = "C" -> "c" [] c = "D" -> "d"
               [] c = "E" -> "e" [] c = "F" -> "f" [] c = "G" -> "g" [] c = "H" -> "h"
               [] c = "I" -> "i" [] c = "J" -> "j" [] c = "K" -> "k" [] c = "L" -> "l"
               [] c = "M" -> "m" [] c = "N" -> "n" [] c = "O" -> "o" [] c = "P" -> "p"
               [] c = "Q" -> "q" [] c = "R" -> "r" [] c = "S" -> "s" [] c = "T" -> "t"
               [] c = "U" -> "u" [] c = "V" -> "v" [] c = "W" -> "w" [] c = "X" -> "x"
               [] c = "Y" -> "y" [] c = "Z" -> "z"]

\* The one character whose lower-case form is two characters: LATIN CAPITAL
\* LETTER I WITH DOT ABOVE lowers to "i" followed by COMBINING DOT ABOVE.
\* Either code point is one character of a string, named by its number.
DottedCapitalI == "U+0130"
CombiningDot == "U+0307"

\* the lower-case form of one character
LowerChar(c) ==
  IF c \in Uppers THEN << LowerOf[c] >>
  ELSE IF c = DottedCapitalI THEN << "i", CombiningDot >>
  ELSE << c >>

\* str.lower()
RECURSIVE Lower(_)
Lower(s) == IF s = << >> THEN << >> ELSE LowerChar(Head(s)) \o Lower(Tail(s))

\* s[a:b] with 0 <= a, b (Python slice, clipped to the string)
Slice(s, a, b) ==
  LET hi == IF b > Len(s) THEN Len(s) ELSE b
  IN  IF a >= hi THEN << >> ELSE SubSeq(s, a + 1, hi)

\* str.find(): index of the first occurrence, -1 when there is none
Find(text, pat) ==
  LET hits == {i \in 0..(Len(text) - Len(pat)) : Slice(text, i, i + Len(pat)) = pat}
  IN  IF hits = {} THEN -1 ELSE CHOOSE i \in hits : \A j \in hits : i <= j

\* str.strip(chars): drop leading and trailing characters of the set
StripChars(s, chars) ==
  LET lo == CHOOSE i \in 1..(Len(s) + 1) :
              /\ i > Len(s) \/ s[i] \notin chars
              /\ \A j \in 1..(i - 1) : s[j] \in chars
      hi == CHOOSE i \in 0..Len(s) :
              /\ i = 0 \/ s[i] \notin chars
              /\ \A j \in (i + 1)..Len(s) : s[j] \in chars
  IN  IF lo > hi THEN << >> ELSE SubSeq(s, lo, hi)

\* str.strip()
Strip(s) == StripChars(s, Whitespace)

\* str.endswith((".", "!", "?"))
EndsWithAny(s, chars) == Len(s) > 0 /\ s[Len(s)] \in chars

\* ------------------------------------------------------- sentence splitter
Terminators == {".", "!", "?"}

\* first index >= i of s whose character is not in chars (Len(s) + 1 if none)
RECURSIVE SkipRun(_, _, _)
SkipRun(s, i, chars) ==
  IF i <= Len(s) /\ s[i] \in chars THEN SkipRun(s, i + 1, chars) ELSE i

\* re.split(r"[.!?]+\s+", s): the pieces between the separators, a separator
\* being a maximal run of terminators directly followed by a run of whitespace
RECURSIVE ReSplit(_, _, _)
ReSplit(s, i, start) ==
  IF i > Len(s) THEN << SubSeq(s, start, Len(s)) >>
  ELSE IF s[i] \in Terminators
       THEN LET j == SkipRun(s, i, Terminators)
                k == SkipRun(s, j, Whitespace)
            IN  IF k > j
                THEN << SubSeq(s, start, i - 1) >> \o ReSplit(s, k, k)
                ELSE ReSplit(s, j, start)
       ELSE ReSplit(s, i + 1, start)

\* [s.strip() for s in sentences if s.strip()]
RECURSIVE StripNonEmpty(_)
StripNonEmpty(pieces) ==
  IF pieces = << >> THEN << >>
  ELSE LET h == Strip(Head(pieces))
       IN  (IF h = << >> THEN << >> ELSE << h >>) \o StripNonEmpty(Tail(pieces))

\* faulty variant: the pieces returned as they are, no period added
split_into_sentences_bare(text) == StripNonEmpty(ReSplit(Strip(text), 1, 1))

\* services.split_into_sentences
split_into_sentences(text) ==
  LET sentences == StripNonEmpty(ReSplit(Strip(text), 1, 1))
  IN  [i \in 1..Len(sentences) |->
         IF EndsWithAny(sentences[i], Terminators)
         THEN sentences[i]
         ELSE sentences[i] \o << "." >>]

\* ------------------------------------------------------- scored verifier
\* Scores are exact fractions << numerator, denominator >> of a percentage.
ScoreGT(x, y) == x[1] * y[2] > y[1] * x[2]
ScoreGE(x, y) == x[1] * y[2] >= y[1] * x[2]
ScoreLT(x, y) == x[1] * y[2] < y[1] * x[2]
Pct(n) == << n, 1 >>

\* \w of the regular expressions
WordChars == Lowers \cup Uppers \cup Digits \cup {"_"}

\* set(re.findall(r"\b\w+\b", s)): the maximal runs of word characters
WordSet(s) ==
  LET starts == {i \in 1..Len(s) :
                   s[i] \in WordChars /\ (i = 1 \/ s[i - 1] \notin WordChars)}
  IN  {SubSeq(s, i, SkipRun(s, i, WordChars) - 1) : i \in starts}

\* max(blocks, key=size) over the common blocks of a and b given as triples
\* << start in a, start in b, size >>: the longest, the earliest in a and
\* then in b among the longest; size 0 when there is none (the terminating
\* dummy block)
LongestOf(blocks, a, b) ==
  IF blocks = {} THEN [a |-> Len(a), b |-> Len(b), size |-> 0]
  ELSE LET t == CHOOSE t \in blocks : \A u \in blocks :
                  \/ t[3] > u[3]
                  \/ t[3] = u[3] /\ t[1] < u[1]
                  \/ t[3] = u[3] /\ t[1] = u[1] /\ t[2] <= u[2]
       IN  [a |-> t[1], b |-> t[2], size |-> t[3]]

\* max(SequenceMatcher(None, a, b).get_matching_blocks(), key=size), with
\* 0-based starts
LongestMatch(a, b) ==
  LongestOf({t \in (0..Len(a)) \X (0..Len(b)) \X (1..Len(a)) :
               /\ t[1] + t[3] <= Len(a)
               /\ t[2] + t[3] <= Len(b)
               /\ a[t[1] + 1] = b[t[2] + 1]
               /\ Slice(a, t[1], t[1] + t[3]) = Slice(b, t[2], t[2] + t[3])},
            a, b)

\* faulty variant: weights that add up to more than one
CombinedScore_overweight(m) ==
  << 30 * m.ratio + 50 * m.partial + 15 * m.token_sort + 15 * m.token_set, 100 >>

\* combined_score of one window from the four fuzz metrics (each 0..100)
CombinedScore(m) ==
  << 30 * m.ratio + 40 * m.partial + 15 * m.token_sort + 15 * m.token_set, 100 >>

NoMatch ==
  [similarity_score |-> Pct(0), start_position |-> None, end_position |-> None,
   match_type |-> "no_match", verified |-> FALSE]

\* The body of the sliding-window loop for the window starting at i:
\* st = [best_score, best_match] after the iteration
WindowUpdate(st, i, combined_score, longest_match) ==
  IF ScoreGT(combined_score, st.best_score)
  THEN [best_score |-> combined_score,
        best_match |->
          IF longest_match.size > 0
          THEN Some([similarity_score |-> combined_score,
                     start_position |-> Some(i + longest_match.b),
                     end_position |-> Some(i + longest_match.b + longest_match.size),
                     match_type |-> "partial",
                     verified |-> ScoreGE(combined_score, Pct(70))])
          ELSE st.best_match]
  ELSE st

\* The sliding-window loop from window start i on; fz[i] are the four fuzz
\* metrics the similarity library returns for the window starting at i
RECURSIVE SlideWindows(_, _, _, _, _)
SlideWindows(fragment_content, original_text, fz, i, st) ==
  LET fragment_len == Len(fragment_content)
      \* range(0, len(original_text) - fragment_len + 1, max(1, fragment_len // 4))
      step == IF fragment_len \div 4 > 1 THEN fragment_len \div 4 ELSE 1
      search_window_size ==
        IF fragment_len + 100 < Len(original_text)
        THEN fragment_len + 100 ELSE Len(original_text)
  IN  IF i >= Len(original_text) - fragment_len + 1 THEN st
      ELSE SlideWindows(fragment_content, original_text, fz, i + step,
             WindowUpdate(st, i, CombinedScore(fz[i]),
               LongestMatch(fragment_content,
                            Slice(original_text, i, i + search_window_size))))

\* (word_overlap / len(fragment_words)) * 100.0
WordSimilarity(fragment_words, text_words) ==
  << Cardinality(fragment_words \cap text_words) * 100, Cardinality(fragment_words) >>

\* faulty variant: a word_overlap result verified from 50 percent on
WordOverlapMatch_lenient(word_similarity) ==
  [similarity_score |-> word_similarity,
   start_position |-> None, end_position |-> None,
   match_type |-> "word_overlap",
   verified |-> ScoreGE(word_similarity, Pct(50))]

\* the word_overlap result
WordOverlapMatch(word_similarity) ==
  [similarity_score |-> word_similarity,
   start_position |-> None, end_position |-> None,
   match_type |-> "word_overlap",
   verified |-> ScoreGE(word_similarity, Pct(70))]

\* return best_match or the no_match result
OrNoMatch(best_match) == IF best_match # None THEN best_match[1] ELSE NoMatch

\* faulty variant: the word-level tier tried whatever the best window scored
WordOverlapTier_unguarded(slid, fragment_words, text_words) ==
  OrNoMatch(IF /\ fragment_words # {} /\ text_words # {}
               /\ ScoreGT(WordSimilarity(fragment_words, text_words), slid.best_score)
            THEN Some(WordOverlapMatch(WordSimilarity(fragment_words, text_words)))
            ELSE slid.best_match)

\* The word-level tier, tried when the best window scored under 50, and the
\* result returned; slid is the outcome of the sliding-window loop
WordOverlapTier(slid, fragment_words, text_words) ==
  OrNoMatch(IF /\ ScoreLT(slid.best_score, Pct(50))
               /\ fragment_words # {} /\ text_words # {}
               /\ ScoreGT(WordSimilarity(fragment_words, text_words), slid.best_score)
            THEN Some(WordOverlapMatch(WordSimilarity(fragment_words, text_words)))
            ELSE slid.best_match)

\* The sliding-window tier followed by the word-level tier
FuzzyTier(fragment_content, original_text, fz) ==
  WordOverlapTier(SlideWindows(fragment_content, original_text, fz, 0,
                               [best_score |-> Pct(0), best_match |-> None]),
                  WordSet(Lower(fragment_content)),
                  WordSet(Lower(original_text)))

\* The case-insensitive tier, start_pos_ci the result of the lowered find
CaseInsensitiveTier(fragment_content, original_text, fz, start_pos_ci) ==
  IF start_pos_ci # -1
  THEN [similarity_score |-> Pct(95),
        start_position |-> Some(start_pos_ci),
        end_position |-> Some(start_pos_ci + Len(fragment_content)),
        match_type |-> "case_insensitive", verified |-> TRUE]
  ELSE FuzzyTier(fragment_content, original_text, fz)

\* The exact tier, start_pos the result of the find
ExactTier(fragment_content, original_text, fz, start_pos) ==
  IF start_pos # -1
  THEN [similarity_score |-> Pct(100),
        start_position |-> Some(start_pos),
        end_position |-> Some(start_pos + Len(fragment_content)),
        match_type |-> "exact", verified |-> TRUE]
  ELSE CaseInsensitiveTier(fragment_content, original_text, fz,
                           Find(Lower(original_text), Lower(fragment_content)))

\* faulty variant: the end offset taken from the untrimmed content
calculate_similarity_scores_untrimmed(content, original_text, fz) ==
  ExactTier(content, original_text, fz, Find(original_text, Strip(content)))

\* Fragment._calculate_similarity_scores
calculate_similarity_scores(content, original_text, fz) ==
  ExactTier(Strip(content), original_text, fz, Find(original_text, Strip(content)))

\* ------------------------------------------------------- legacy verifier
\* first index >= i of s whose character is in chars (Len(s) + 1 if none)
RECURSIVE SkipTo(_, _, _)
SkipTo(s, i, chars) ==
  IF i <= Len(s) /\ s[i] \notin chars THEN SkipTo(s, i + 1, chars) ELSE i

\* str.split(): the maximal runs of characters that are not whitespace
RECURSIVE SplitWords(_, _)
SplitWords(s, i) ==
  IF i > Len(s) THEN << >>
  ELSE IF s[i] \in Whitespace THEN SplitWords(s, i + 1)
  ELSE << SubSeq(s, i, SkipTo(s, i, Whitespace) - 1) >>
       \o SplitWords(s, SkipTo(s, i, Whitespace))

\* " ".join(words)
RECURSIVE JoinWords(_)
JoinWords(words) ==
  IF words = << >> THEN << >>
  ELSE IF Len(words) = 1 THEN words[1]
  ELSE words[1] \o << " " >> \o JoinWords(Tail(words))

LegacyNoMatch ==
  [verified |-> FALSE, start_position |-> None, end_position |-> None,
   match_type |-> "no_match"]

\* a match of the legacy verifier found at start_pos for a text of length n
LegacyMatch(start_pos, n, match_type) ==
  [verified |-> TRUE, start_position |-> Some(start_pos),
   end_position |-> Some(start_pos + n), match_type |-> match_type]

\* The loop over the suffixes words[i:] of a fragment of more than three
\* words: the first suffix longer than 20 characters that occurs in the text
RECURSIVE LegacyPartial(_, _, _)
LegacyPartialAt(words, i, original_text, partial_fragment) ==
  IF Len(partial_fragment) > 20 /\ Find(original_text, partial_fragment) # -1
  THEN LegacyMatch(Find(original_text, partial_fragment), Len(partial_fragment),
                   "partial")
  ELSE LegacyPartial(words, i + 1, original_text)
LegacyPartial(words, i, original_text) ==
  IF i >= Len(words) - 2 THEN LegacyNoMatch
  ELSE LegacyPartialAt(words, i, original_text,
                       JoinWords(SubSeq(words, i + 1, Len(words))))

\* the partial tier of the legacy verifier
LegacyPartialTier(words, original_text) ==
  IF Len(words) > 3 THEN LegacyPartial(words, 0, original_text) ELSE LegacyNoMatch

\* the case-insensitive tier, start_pos_ci the result of the lowered find
LegacyCaseInsensitiveTier(fragment_content, original_text, start_pos_ci) ==
  IF start_pos_ci # -1
  THEN LegacyMatch(start_pos_ci, Len(fragment_content), "case_insensitive")
  ELSE LegacyPartialTier(SplitWords(fragment_content, 1), original_text)

\* the exact tier, start_pos the result of the find
LegacyExactTier(fragment_content, original_text, start_pos) ==
  IF start_pos # -1
  THEN LegacyMatch(start_pos, Len(fragment_content), "exact")
  ELSE LegacyCaseInsensitiveTier(fragment_content, original_text,
         Find(Lower(original_text), Lower(fragment_content)))

\* VerificationService.verify_fragment_in_text
verify_fragment_in_text(fragment_content, original_text) ==
  LegacyExactTier(fragment_content, original_text,
                  Find(original_text, fragment_content))

\* ------------------------------------------------------- generation client
\* string literals of services.py
TimeoutText ==
  << "t", "i", "m", "e", "o", "u", "t" >>
EmptyResponseText ==
  << "E", "m", "p", "t", "y", " ", "r", "e", "s", "p", "o", "n", "s", "e",
     " ", "f", "r", "o", "m", " ", "O", "p", "e", "n", "A", "I", " ", "A",
     "P", "I" >>
ApiFailedPrefix ==
  << "F", "a", "i", "l", "e", "d", " ", "t", "o", " ", "g", "e", "t", " ",
     "r", "e", "s", "p", "o", "n", "s", "e", " ", "f", "r", "o", "m", " ",
     "O", "p", "e", "n", "A", "I", ":", " " >>
JustificationErrorPrefix ==
  << "[", "E", "r", "r", "o", "r", " ", "e", "x", "t", "r", "a", "c", "t",
     "i", "n", "g", " ", "j", "u", "s", "t", "i", "f", "i", "c", "a", "t",
     "i", "o", "n", ":", " " >>
PlaceholderHead ==
  << "F", "r", "a", "g", "m", "e", "n", "t", " " >>
PlaceholderTail ==
  << " ", "n", "o", "t", " ", "e", "x", "t", "r", "a", "c", "t", "e", "d" >>

\* int -> decimal string (the {i+1} of an f-string)
DigitChar == << "0", "1", "2", "3", "4", "5", "6", "7", "8", "9" >>
RECURSIVE IntToStr(_)
IntToStr(n) ==
  IF n < 10 THEN << DigitChar[n + 1] >>
  ELSE IntToStr(n \div 10) \o << DigitChar[(n % 10) + 1] >>

\* str.split("\n")
RECURSIVE SplitLines(_, _, _)
SplitLines(s, i, start) ==
  IF i > Len(s) THEN << SubSeq(s, start, Len(s)) >>
  ELSE IF s[i] = "\n"
       THEN << SubSeq(s, start, i - 1) >> \o SplitLines(s, i + 1, i + 1)
       ELSE SplitLines(s, i + 1, start)

ListMarks == {".", ")", ":"}

\* faulty variant: a numbered line kept with its number
ParseLine_keeping_number(line) ==
  LET d == SkipRun(line, 1, Digits)
      only_number == d > 1 /\ (d > Len(line) \/ (d = Len(line) /\ line[d] \in ListMarks))
  IN  IF only_number THEN << >> ELSE << line >>

\* One stripped, non-empty line of _parse_numbered_list: the items it adds.
\* re.match(r"^\d+[\.\)\:]\s*(.+)", line) takes the text after the number,
\* its mark and the blanks; a line that is only a number (with or without a
\* mark) is dropped; any other line is kept whole.
ParseLine(line) ==
  LET d == SkipRun(line, 1, Digits)
      numbered == d > 1 /\ d <= Len(line) /\ line[d] \in ListMarks
      rest == IF numbered THEN SubSeq(line, SkipRun(line, d + 1, Whitespace), Len(line))
              ELSE << >>
      only_number == d > 1 /\ (d > Len(line) \/ (d = Len(line) /\ line[d] \in ListMarks))
  IN  IF numbered /\ rest # << >> THEN << Strip(rest) >>
      ELSE IF only_number THEN << >>
      ELSE << line >>

RECURSIVE ParseLines(_)
ParseLines(lines) ==
  IF lines = << >> THEN << >>
  ELSE LET line == Strip(Head(lines))
       IN  (IF line = << >> THEN << >> ELSE ParseLine(line)) \o ParseLines(Tail(lines))

\* OpenAIService._parse_numbered_list
parse_numbered_list(text) == ParseLines(SplitLines(Strip(text), 1, 1))

\* the number of fragments extract_fragments returns
FragmentCount == 10

\* f"Fragment {i+1} not extracted"
Placeholder(i) ==
  PlaceholderHead \o IntToStr(i + 1) \o PlaceholderTail

\* faulty variant: extract_fragments without the padding and trimming to ten
extract_fragments_unpadded(response) == parse_numbered_list(response)

\* the list padded with placeholders or trimmed to FragmentCount items
PadOrTrim(fragments) ==
  IF Len(fragments) < FragmentCount
  THEN fragments \o [k \in 1..(FragmentCount - Len(fragments)) |->
                       Placeholder(Len(fragments) + k - 1)]
  ELSE SubSeq(fragments, 1, FragmentCount)

\* OpenAIService.extract_fragments, from the text _make_api_call returned
extract_fragments(response) == PadOrTrim(parse_numbered_list(response))

\* What the chat-completion endpoint does on one call: it fails (kind "error",
\* text the cause) or answers (kind "content", text the message content).
ApiFailure == [kind |-> "error", text |-> TimeoutText]
ApiContent(c) == [kind |-> "content", text |-> c]

\* OpenAIService._make_api_call: [ok |-> TRUE, value |-> content.strip()] or
\* [ok |-> FALSE, error |-> the text of the exception raised]
make_api_call(answer) ==
  IF answer.kind = "content" /\ answer.text # << >>
  THEN [ok |-> TRUE, value |-> Strip(answer.text), error |-> << >>]
  ELSE [ok |-> FALSE, value |-> << >>,
        error |-> ApiFailedPrefix \o
                  (IF answer.kind = "error" THEN answer.text ELSE EmptyResponseText)]

\* faulty variant: a loop body that hides a failed call behind an empty content
justification_pair_silent(sentence, answer) ==
  LET r == make_api_call(answer)
  IN  IF r.ok
      THEN << sentence, StripChars(StripChars(Strip(r.value), {"\""}), {"'"}) >>
      ELSE << sentence, << >> >>

\* One iteration of the loop of extract_justification_fragments: the pair
\* appended for the sentence, given the endpoint's answer
justification_pair(sentence, answer) ==
  LET r == make_api_call(answer)
  IN  IF r.ok
      THEN << sentence, StripChars(StripChars(Strip(r.value), {"\""}), {"'"}) >>
      ELSE << sentence, JustificationErrorPrefix \o r.error \o << "]" >> >>

\* ------------------------------------------------------- error texts
\* string literals of processors.py
ProcessFailedPrefix ==
  << "T", "e", "x", "t", " ", "p", "r", "o", "c", "e", "s", "s", "i", "n",
     "g", " ", "f", "a", "i", "l", "e", "d", ":", " " >>
S1FailedPrefix ==
  << "S", "1", " ", "g", "e", "n", "e", "r", "a", "t", "i", "o", "n", " ",
     "f", "a", "i", "l", "e", "d", ":", " " >>
F1FailedPrefix ==
  << "F", "1", " ", "e", "x", "t", "r", "a", "c", "t", "i", "o", "n", " ",
     "f", "a", "i", "l", "e", "d", ":", " " >>
S2FailedPrefix ==
  << "S", "2", " ", "g", "e", "n", "e", "r", "a", "t", "i", "o", "n", " ",
     "f", "a", "i", "l", "e", "d", ":", " " >>
F2FailedPrefix ==
  << "F", "2", " ", "e", "x", "t", "r", "a", "c", "t", "i", "o", "n", " ",
     "f", "a", "i", "l", "e", "d", ":", " " >>
NoF1Text ==
  << "N", "o", " ", "F", "1", " ", "f", "r", "a", "g", "m", "e", "n", "t",
     "s", " ", "f", "o", "u", "n", "d", " ", "f", "o", "r", " ", "S", "2",
     " ", "g", "e", "n", "e", "r", "a", "t", "i", "o", "n" >>
NoS1Text ==
  << "N", "o", " ", "S", "1", " ", "s", "u", "m", "m", "a", "r", "y", " ",
     "f", "o", "u", "n", "d", " ", "f", "o", "r", " ", "F", "2", " ", "e",
     "x", "t", "r", "a", "c", "t", "i", "o", "n" >>
\* the text of the IntegrityError the store raises for unique_together
UniqueViolationText ==
  << "U", "N", "I", "Q", "U", "E", " ", "c", "o", "n", "s", "t", "r", "a",
     "i", "n", "t", " ", "f", "a", "i", "l", "e", "d" >>
VerificationFailedPrefix ==
  << "V", "e", "r", "i", "f", "i", "c", "a", "t", "i", "o", "n", " ", "f",
     "a", "i", "l", "e", "d", ":", " " >>
\* the message of a direct mark_failed call
TestErrorText ==
  << "T", "e", "s", "t", " ", "e", "r", "r", "o", "r" >>

\* ------------------------------------------------------- inputs
\* original_text of submission 1
Text1 ==
  << "C", "a", "t", "s", " ", "n", "a", "p", ".", " ", "D", "o", "g", "s",
     " ", "r", "u", "n", " ", "f", "a", "r", "." >>
\* original_text of submission 2
Text2 ==
  << "C", "a", "t", "s", " ", "n", "a", "p", ".", " ", "B", "i", "r", "d",
     "s", " ", "s", "i", "n", "g", "." >>
\* original_text of submission 4: 40 characters (that of submission 3 is
\* the empty text)
Text4 ==
  << "T", "h", "e", " ", "q", "u", "i", "c", "k", " ", "b", "r", "o", "w",
     "n", " ", "f", "o", "x", " ", "j", "u", "m", "p", "s", " ", "o", "v",
     "e", "r", " ", "l", "a", "z", "y", " ", "d", "o", "g", "s" >>
\* original_text of submission 5: a text whose lower-case form is longer
Text5 ==
  << DottedCapitalI, " ", "a", "b", "c" >>
\* ------------------------------------------------------- request validation
\* CharField(min_length=..., max_length=...) of the request field "text"
min_length == 50
max_length == 10000

\* The bodies of the requests to the start view: << >> is a body without
\* the field "text", << text >> a body with it.
Requests ==
  LET Letters == << "a", "b", "c", "d", "e", "f", "g", "h", "j", "k", "l" >>
      Capitals == << "A", "B", "C", "D", "E" >>
      Fill(n, k) == [i \in 1..n |-> Letters[((i - 1) % k) + 1]]
      Mixed(n) == [i \in 1..n |-> IF i % 2 = 0 THEN Letters[((i \div 2) % 5) + 1]
                                   ELSE Capitals[((i \div 2) % 5) + 1]]
  IN  << << >>,
         << << >> >>,
         << << " ", "\n", " ", "\t" >> >>,
         << Fill(49, 10) >>,
         << Fill(50, 10) >>,
         << << " ", "\n" >> \o Fill(50, 10) \o << "\t", " " >> >>,
         << << " ", " " >> \o Fill(49, 10) \o << " " >> >>,
         << Fill(10000, 11) >>,
         << Fill(10001, 11) >>,
         << << " " >> \o Fill(10000, 11) \o << "\n", " ", " " >> >>,
         << Fill(60, 9) >>,
         << Mixed(60) >>,
         << << DottedCapitalI >> \o Fill(59, 8) >>,
         << << " " >> \o Fill(60, 9) >> >>

\* TextSubmissionCreateSerializer.validate_text: [ok |-> FALSE] is the
\* ValidationError, else value is the text returned
validate_text(value) ==
  LET unique_chars(lowered) ==
        Cardinality(UNION {{LowerChar(lowered[i])[j] : j \in 1..Len(LowerChar(lowered[i]))} :
                             i \in 1..Len(lowered)})
      checked(stripped) ==
        IF Len(stripped) < 50 THEN [ok |-> FALSE, value |-> << >>]
        ELSE IF Len(stripped) > 10000 THEN [ok |-> FALSE, value |-> << >>]
        ELSE IF unique_chars(stripped) < 10 THEN [ok |-> FALSE, value |-> << >>]
        ELSE [ok |-> TRUE, value |-> stripped]
  IN  checked(Strip(value))

\* faulty variant: the field "text" declared with trim_whitespace=False and
\* its lengths not looked at by validate_text
is_valid_untrimmed(data) ==
  IF data = << >> THEN [ok |-> FALSE, value |-> << >>]
  ELSE IF data[1] = << >> THEN [ok |-> FALSE, value |-> << >>]
  ELSE IF Len(data[1]) < min_length \/ Len(data[1]) > max_length
       THEN [ok |-> FALSE, value |-> << >>]
  ELSE [ok |-> TRUE, value |-> data[1]]

\* serializer.is_valid() with serializer.validated_data["text"]: the field is
\* required, its value is trimmed, must not be blank and must keep the
\* declared lengths; then validate_text runs on it
is_valid(data) ==
  LET validated(value) ==
        IF value = << >> THEN [ok |-> FALSE, value |-> << >>]
        ELSE IF Len(value) < min_length \/ Len(value) > max_length
             THEN [ok |-> FALSE, value |-> << >>]
        ELSE validate_text(value)
  IN  IF data = << >> THEN [ok |-> FALSE, value |-> << >>]
      ELSE validated(Strip(data[1]))

\* TextSubmissionCreateSerializer(data=request.data) for each request body,
\* validated
Serializers == [k \in DOMAIN Requests |-> is_valid(Requests[k])]

\* original_text of a submission: the fixtures 1..5, and for a submission the
\* start view created (its id tells the request) the validated request text
OriginalText(s) ==
  CASE s = 1 -> Text1 [] s = 2 -> Text2 [] s = 3 -> << >> [] s = 4 -> Text4
    [] s = 5 -> Text5
    [] OTHER -> Serializers[((s - 6) % Len(Requests)) + 1].value

\* answers of the endpoint to the summary prompts
SummaryTwo ==
  << "C", "a", "t", "s", " ", "n", "a", "p", "!", " ", "D", "o", "g", "s",
     " ", "r", "u", "n" >>
SummaryOne ==
  << "P", "e", "t", "s", " ", "r", "e", "s", "t", "." >>
\* answers of the endpoint to the fragment prompt: ten verbatim quotes of Text1
FragmentsFull ==
  << "1", ".", " ", "C", "a", "t", "s", "\n", "2", ".", " ", "n", "a", "p",
     "\n", "3", ".", " ", "D", "o", "g", "s", "\n", "4", ".", " ", "r", "u",
     "n", "\n", "5", ".", " ", "f", "a", "r", "\n", "6", ")", " ", "C", "a",
     "t", "s", " ", "n", "a", "p", "\n", "7", ":", " ", "D", "o", "g", "s",
     " ", "r", "u", "n", "\n", "8", ".", " ", "r", "u", "n", " ", "f", "a",
     "r", "\n", "9", ".", " ", "n", "a", "p", ".", "\n", "1", "0", ".", " ",
     "f", "a", "r", "." >>
\* two items only: one differing in case, one unrelated and unnumbered
FragmentsShort ==
  << "1", ")", " ", "c", "a", "t", "s", " ", "N", "A", "P", "\n", "x", "y",
     "z" >>
\* answer of the endpoint to a justification prompt
QuoteCats ==
  << "\"", "C", "a", "t", "s", " ", "n", "a", "p", "\"" >>

S1Answers == {ApiFailure, ApiContent(SummaryTwo)}
F1Answers == {ApiFailure, ApiContent(FragmentsFull), ApiContent(FragmentsShort)}
S2Answers == {ApiFailure, ApiContent(SummaryOne)}
F2Answers == {ApiFailure, ApiContent(QuoteCats)}

\* message contents of the endpoint given to extract_fragments: twelve,
\* eleven and nine numbered items, marks without a blank after them, lines
\* with blanks and bare numbers and an unnumbered line, bare numbers only, an
\* item that begins with a number, and blanks only
Responses ==
  [twelve |->
     << "1", ".", " ", "a", "b", "\n", "2", ")", " ", "c", "d", "\n", "3", ":",
       " ", "e", "f", "\n", "4", ".", " ", "g", "h", "\n", "5", ")", " ",
       "i", "j", "\n", "6", ":", " ", "k", "l", "\n", "7", ".", " ", "m",
       "n", "\n", "8", ")", " ", "o", "p", "\n", "9", ":", " ", "q", "r",
       "\n", "1", "0", ".", " ", "s", "t", "\n", "1", "1", ")", " ", "u",
       "v", "\n", "1", "2", ":", " ", "w", "x" >>,
   eleven |->
     << "1", ".", "a", "b", "\n", "2", ".", "c", "d", "\n", "3", ".", "e", "f",
       "\n", "4", ".", "g", "h", "\n", "5", ".", "i", "j", "\n", "6", ".",
       "k", "l", "\n", "7", ".", "m", "n", "\n", "8", ".", "o", "p", "\n",
       "9", ".", "q", "r", "\n", "1", "0", ".", "s", "t", "\n", "1", "1",
       ".", "u", "v" >>,
   nine |->
     << "1", ")", " ", "a", "b", "\n", "2", ")", " ", "c", "d", "\n", "3", ")",
       " ", "e", "f", "\n", "4", ")", " ", "g", "h", "\n", "5", ")", " ",
       "i", "j", "\n", "6", ")", " ", "k", "l", "\n", "7", ")", " ", "m",
       "n", "\n", "8", ")", " ", "o", "p", "\n", "9", ")", " ", "q", "r" >>,
   tight |->
     << "1", ":", "C", "a", "t", "s", "\n", "2", ":", "n", "a", "p", "\n", "3",
       ":", "r", "u", "n" >>,
   ragged |->
     << " ", "1", ".", " ", "C", "a", "t", "s", "\n", "\n", "2", ".", "\n", "3",
       "\n", " ", " ", "4", ")", " ", " ", " ", "D", "o", "g", "s", " ", " ",
       "\n", "r", "u", "n", " ", "f", "a", "r", "\n" >>,
   numbers |->
     << "1", ".", "\n", "2", ")", "\n", "3" >>,
   nested |->
     << "1", ".", " ", "2", ")", " ", "C", "a", "t", "s", "\n", "1", "0", ":",
       " ", "n", "a", "p" >>,
   blank |->
     << " ", " ", "\n", " " >>,
   \* an answer in prose, no list
   prose |->
     << "S", "o", "r", "r", "y", ",", " ", "n", "o", " ", "q", "u", "o", "t",
       "e", "s", "." >>]

\* texts given to split_into_sentences
Texts ==
  [two |->
     << "H", "e", "l", "l", "o", " ", "w", "o", "r", "l", "d", ".", " ", "F",
       "o", "o", " ", "b", "a", "r", "!" >>,
   bare |->
     << "N", "o", " ", "p", "u", "n", "c", "t", "u", "a", "t", "i", "o", "n",
       " ", "h", "e", "r", "e" >>,
   marks |->
     << "I", "s", " ", "i", "t", "?", " ", "Y", "e", "s", "!", " ", "F", "i",
       "n", "e", "." >>,
   runs |->
     << " ", " ", "W", "a", "i", "t", ".", ".", ".", " ", " ", "W", "h", "a",
       "t", "?", "!", " ", " " >>,
   inner |->
     << "a", ".", "b", ".", " ", "c" >>,
   leading |->
     << ".", " ", "H", "i" >>,
   lines |->
     << "H", "i", ".", "\n", "B", "y", "e", ".", "\t", "E", "n", "d" >>,
   gaps |->
     << "O", "n", "e", ".", " ", " ", ".", " ", " ", "T", "w", "o" >>,
   dots |->
     << ".", ".", "." >>,
   empty |->
     << >>,
   blank |->
     << " ", " ", " " >>]

\* What the similarity library returns for the windows of one verification:
\* the same four metrics for every window, a strong or a weak resemblance.
StrongMetrics == [ratio |-> 60, partial |-> 90, token_sort |-> 70, token_set |-> 80]
WeakMetrics == [ratio |-> 10, partial |-> 20, token_sort |-> 10, token_set |-> 10]
FuzzOracles == {[i \in 0..Len(Text1) |-> m] : m \in {StrongMetrics, WeakMetrics}}

\* contents of the fragments the verifiers are applied to
Content ==
  [\* a quote of Text1 and Text2
   exact |->
     << "C", "a", "t", "s", " ", "n", "a", "p" >>,
   \* the quote between blanks
   padded |->
     << " ", "C", "a", "t", "s", " ", "n", "a", "p", "\n" >>,
   \* the quote in another letter case
   other_case |->
     << "c", "a", "t", "s", " ", "N", "A", "P" >>,
   \* a quote that occurs several times
   repeated |->
     << "a" >>,
   \* the same in upper case
   repeated_upper |->
     << "A" >>,
   \* the empty content
   empty |->
     << >>,
   \* a content of blanks only
   blank |->
     << " ", " " >>,
   \* two of three words of Text1
   near |->
     << "D", "o", "g", "s", " ", "r", "a", "n", " ", "f", "a", "r" >>,
   \* the words of Text1 in another order
   shuffled |->
     << "f", "a", "r", " ", "r", "u", "n", " ", "D", "o", "g", "s" >>,
   \* no character in common with the texts
   no_common |->
     << "x", "y", "z" >>,
   \* no word in common with Text4
   absent |->
     << "x", "y", "z", "-", "n", "o", "t", "-", "p", "r", "e", "s", "e", "n",
       "t" >>,
   \* all words of Text4 but the first
   long |->
     << "A", " ", "b", "r", "o", "w", "n", " ", "f", "o", "x", " ", "j", "u",
       "m", "p", "s", " ", "o", "v", "e", "r", " ", "l", "a", "z", "y" >>,
   \* upper-case letters of Text5
   upper |->
     << "A", "B", "C" >>,
   \* the first character of Text1 and one that no text has
   initial |->
     << "C", "X" >>,
   \* the lower-case form of Text5, one character longer than Text5
   lowered |->
     << "i", CombiningDot, " ", "a", "b", "c" >>,
   \* a word of Text5 twice, longer than Text5
   doubled |->
     << "a", "b", "c", " ", "a", "b", "c" >>]

\* The fragments under verification: << submission id, content >>
VerifierCases ==
  ({1, 2} \X {Content.exact, Content.padded, Content.other_case,
              Content.repeated, Content.repeated_upper, Content.empty,
              Content.blank, Content.near, Content.shuffled, Content.no_common})
  \cup ({3} \X {Content.empty, Content.blank, Content.exact})
  \cup ({4} \X {Content.absent, Content.long, Content.near})
  \cup ({5} \X {Content.upper, Content.no_common, Content.lowered, Content.doubled})
  \cup ({1} \X {Content.initial})

\* more of what the similarity library can return for a window
ZeroMetrics == [ratio |-> 0, partial |-> 0, token_sort |-> 0, token_set |-> 0]
MidMetrics == [ratio |-> 50, partial |-> 70, token_sort |-> 50, token_set |-> 60]
FullMetrics == [ratio |-> 100, partial |-> 100, token_sort |-> 100, token_set |-> 100]

\* Oracles for the verifiers: the metrics m1 for the first window and m2 for
\* the windows after it
WindowOracle(m1, m2) == [i \in 0..Len(Text4) |-> IF i = 0 THEN m1 ELSE m2]
VerifierOracles ==
  {WindowOracle(m, m) :
     m \in {ZeroMetrics, WeakMetrics, MidMetrics, StrongMetrics, FullMetrics}}
  \cup {WindowOracle(WeakMetrics, StrongMetrics),
        WindowOracle(StrongMetrics, WeakMetrics),
        \* later windows that resemble the content in its tokens only
        \* (token_sort_ratio and token_set_ratio compare lowered strings)
        WindowOracle(WeakMetrics,
                     [ratio |-> 0, partial |-> 0, token_sort |-> 67, token_set |-> 67])}

\* ------------------------------------------------------- TextSubmission
\* timezone.now(): only its presence is modelled
Now == "now"

\* a TextSubmission as created (status default "pending")
NewSubmission ==
  [status |-> "pending", error_message |-> None,
   processing_started_at |-> None, processing_completed_at |-> None]

\* Model.save(update_fields=fields): the row takes the listed fields of the
\* in-memory object and keeps its other columns
save(row, self, fields) ==
  [f \in DOMAIN row |-> IF f \in fields THEN self[f] ELSE row[f]]

\* TextSubmission.start_processing: the object after the assignments
start_processing(self) ==
  [self EXCEPT !.status = "processing", !.processing_started_at = Some(Now)]
\* faulty variant: the status saved without its timestamp
StartFields_status_only == {"status"}
StartFields == {"status", "processing_started_at"}

\* TextSubmission.mark_completed
mark_completed(self) ==
  [self EXCEPT !.status = "completed", !.processing_completed_at = Some(Now)]
CompletedFields == {"status", "processing_completed_at"}

\* faulty variant: mark_failed without the assignment of error_message
mark_failed_no_message(self, error_message) ==
  [self EXCEPT !.status = "failed", !.processing_completed_at = Some(Now)]

\* TextSubmission.mark_failed
mark_failed(self, error_message) ==
  [self EXCEPT !.status = "failed", !.error_message = Some(error_message),
               !.processing_completed_at = Some(Now)]
FailedFields == {"status", "error_message", "processing_completed_at"}

\* ------------------------------------------------------- Summary, Fragment
\* faulty variant: Summary.objects.create without the uniqueness constraint
create_summary_unconstrained(table, s, summary_type, content) ==
  LET row == [id |-> Cardinality(table) + 1, submission |-> s,
              summary_type |-> summary_type, content |-> content]
  IN  [ok |-> TRUE, table |-> table \cup {row}, row |-> row]

\* faulty variant: the uniqueness constraint on summary_type alone
create_summary_unique_type(table, s, summary_type, content) ==
  LET row == [id |-> Cardinality(table) + 1, submission |-> s,
              summary_type |-> summary_type, content |-> content]
  IN  IF \E r \in table : r.summary_type = summary_type
      THEN [ok |-> FALSE, table |-> table, row |-> row]
      ELSE [ok |-> TRUE, table |-> table \cup {row}, row |-> row]

\* Summary.objects.create under unique_together (submission, summary_type):
\* [ok |-> FALSE] is the IntegrityError, else table is the table afterwards
\* and row the row created.  A row's id is its creation rank.
create_summary(table, s, summary_type, content) ==
  LET row == [id |-> Cardinality(table) + 1, submission |-> s,
              summary_type |-> summary_type, content |-> content]
  IN  IF \E r \in table : r.submission = s /\ r.summary_type = summary_type
      THEN [ok |-> FALSE, table |-> table, row |-> row]
      ELSE [ok |-> TRUE, table |-> table \cup {row}, row |-> row]

\* submission.summaries.filter(summary_type=t).first(): None or Some(row)
first_summary(table, s, summary_type) ==
  LET rows == {r \in table : r.submission = s /\ r.summary_type = summary_type}
  IN  IF rows = {} THEN None ELSE Some(CHOOSE r \in rows : TRUE)

\* Fragment.objects.create: the new row with the field defaults
create_fragment(id, s, fragment_type, content, related_sentence, sequence_number) ==
  [id |-> id, submission |-> s, fragment_type |-> fragment_type,
   content |-> content, start_position |-> None, end_position |-> None,
   verified |-> FALSE, similarity_score |-> Pct(0),
   related_sentence |-> related_sentence, sequence_number |-> sequence_number]

\* faulty variant: the end offset assigned from the start offset
Verified_same_position(self, match_result) ==
  [self EXCEPT !.similarity_score = match_result.similarity_score,
               !.start_position = match_result.start_position,
               !.end_position = match_result.start_position,
               !.verified = match_result.verified]

\* faulty variant: the new score averaged with the score stored before
Verified_averaging(self, match_result) ==
  [self EXCEPT !.similarity_score =
                 << @[1] * match_result.similarity_score[2]
                      + match_result.similarity_score[1] * @[2],
                    2 * @[2] * match_result.similarity_score[2] >>,
               !.start_position = match_result.start_position,
               !.end_position = match_result.end_position,
               !.verified = match_result.verified]

\* the four assignments and the save of verify_against_text
Verified(self, match_result) ==
  [self EXCEPT !.similarity_score = match_result.similarity_score,
               !.start_position = match_result.start_position,
               !.end_position = match_result.end_position,
               !.verified = match_result.verified]

\* Fragment.verify_against_text: the row after the update
verify_against_text(self, original_text, fz) ==
  Verified(self, calculate_similarity_scores(self.content, original_text, fz))

\* faulty variant: an F1 stage that replaces the F1 rows stored before
store_f1_replacing(table, s, contents, fz) ==
  SelectSeq(table, LAMBDA f : f.fragment_type # "F1") \o
  [i \in 1..Len(contents) |->
     verify_against_text(
       create_fragment(<< s, Len(table) + i >>, s, "F1", contents[i], None, i),
       OriginalText(s), fz)]

\* The body of a stage's transaction.atomic() block for F1: the table of
\* submission s after the rows are created and verified for the contents,
\* numbered from 1.  A row's id is its submission and its creation rank.
store_f1(table, s, contents, fz) ==
  table \o
  [i \in 1..Len(contents) |->
     verify_against_text(
       create_fragment(<< s, Len(table) + i >>, s, "F1", contents[i], None, i),
       OriginalText(s), fz)]

\* The same for F2, from the (sentence, justification) pairs
store_f2(table, s, pairs, fz) ==
  table \o
  [i \in 1..Len(pairs) |->
     verify_against_text(
       create_fragment(<< s, Len(table) + i >>, s, "F2", pairs[i][2],
                       Some(pairs[i][1]), i),
       OriginalText(s), fz)]

\* faulty variant: the loop of a fragment stage outside a transaction; the
\* rows created before the exception stay, the last one as it was created
without_transaction(table, stored, fail_at) ==
  SubSeq(stored, 1, Len(table) + fail_at - 1) \o
  << create_fragment(stored[Len(table) + fail_at].id,
                     stored[Len(table) + fail_at].submission,
                     stored[Len(table) + fail_at].fragment_type,
                     stored[Len(table) + fail_at].content,
                     stored[Len(table) + fail_at].related_sentence,
                     stored[Len(table) + fail_at].sequence_number) >>

\* with transaction.atomic() around the loop of a fragment stage, when the
\* iteration fail_at raises after its fragment was created: `table` is the
\* Fragment table of the submission before the block, `stored` the table the
\* whole block would have left; the block is rolled back
transaction_atomic(table, stored, fail_at) == table

\* Fragment.objects.all(): the rows of every submission; tables is the
\* Fragment table kept per submission and ids the submissions still to list
RECURSIVE RowsOf(_, _)
RowsOf(tables, ids) ==
  IF ids = {} THEN << >>
  ELSE LET s == CHOOSE s \in ids : \A u \in ids : s <= u
       IN  tables[s] \o RowsOf(tables, ids \ {s})

\* faulty variant: rows selected by their type alone
RECURSIVE SelectRows_any_submission(_, _, _)
SelectRows_any_submission(table, s, fragment_type) ==
  IF table = << >> THEN << >>
  ELSE (IF Head(table).fragment_type = fragment_type
        THEN << Head(table) >> ELSE << >>)
       \o SelectRows_any_submission(Tail(table), s, fragment_type)

\* submission.fragments.filter(fragment_type=t): the rows of submission s
\* of that type, in table order
RECURSIVE SelectRows(_, _, _)
SelectRows(table, s, fragment_type) ==
  IF table = << >> THEN << >>
  ELSE (IF Head(table).submission = s /\ Head(table).fragment_type = fragment_type
        THEN << Head(table) >> ELSE << >>)
       \o SelectRows(Tail(table), s, fragment_type)

RECURSIVE WithSeq(_, _)
WithSeq(rows, n) ==
  IF rows = << >> THEN << >>
  ELSE (IF Head(rows).sequence_number = n THEN << Head(rows) >> ELSE << >>)
       \o WithSeq(Tail(rows), n)

RECURSIVE OrderFrom(_, _, _)
OrderFrom(rows, n, max) ==
  IF n > max THEN << >> ELSE WithSeq(rows, n) \o OrderFrom(rows, n + 1, max)

\* submission.fragments.filter(fragment_type=t).order_by("sequence_number");
\* rows of equal sequence_number come in creation order
ordered_fragments(table, s, fragment_type) ==
  LET rows == SelectRows(table, s, fragment_type)
      max == IF rows = << >> THEN 0
             ELSE CHOOSE n \in {rows[i].sequence_number : i \in 1..Len(rows)} :
                    \A i \in 1..Len(rows) : rows[i].sequence_number <= n
  IN  OrderFrom(rows, 1, max)

\* faulty variant: a count that ignores the verified flag
verified_count_all(rows) == Len(rows)

\* queryset.filter(verified=True).count()
verified_count(rows) == Cardinality({i \in 1..Len(rows) : rows[i].verified})

\* faulty variant: the division without the test of the total
rate_unguarded(verified, total) == << verified, total >>

\* verified / total if total > 0 else 0, as the fraction << verified, total >>
rate(verified, total) == IF total > 0 THEN << verified, total >> ELSE << 0, 1 >>

\* the verification_summary dictionary of _compile_results and
\* complete_verification
verification_summary(table, s) ==
  LET f1_fragments == SelectRows(table, s, "F1")
      f2_fragments == SelectRows(table, s, "F2")
      f1_verified_count == verified_count(f1_fragments)
      f2_verified_count == verified_count(f2_fragments)
  IN  [F1_total |-> Len(f1_fragments),
       F1_verified |-> f1_verified_count,
       F1_verification_rate |-> rate(f1_verified_count, Len(f1_fragments)),
       F2_total |-> Len(f2_fragments),
       F2_verified |-> f2_verified_count,
       F2_verification_rate |-> rate(f2_verified_count, Len(f2_fragments)),
       overall_verification_rate |->
         rate(f1_verified_count + f2_verified_count,
              Len(f1_fragments) + Len(f2_fragments))]

\* the dictionaries of the "fragments" arrays of _compile_results
f1_entry(fragment) ==
  [id |-> fragment.id, sequence_number |-> fragment.sequence_number,
   content |-> fragment.content, verified |-> fragment.verified,
   start_position |-> fragment.start_position,
   end_position |-> fragment.end_position]
f2_entry(fragment) ==
  [id |-> fragment.id, sequence_number |-> fragment.sequence_number,
   content |-> fragment.content, related_sentence |-> fragment.related_sentence,
   verified |-> fragment.verified,
   start_position |-> fragment.start_position,
   end_position |-> fragment.end_position]

\* TextProcessor._compile_results for the in-memory submission `self` of id s
compile_results(self, s, summary_table, fragment_table) ==
  LET s1_summary == first_summary(summary_table, s, "S1")
      s2_summary == first_summary(summary_table, s, "S2")
  IN  [submission_id |-> s,
       status |-> self.status,
       processing_started_at |-> self.processing_started_at,
       processing_completed_at |-> self.processing_completed_at,
       original_text |-> OriginalText(s),
       summaries |->
         [S1 |-> IF s1_summary = None THEN None ELSE Some(s1_summary[1].content),
          S2 |-> IF s2_summary = None THEN None ELSE Some(s2_summary[1].content)],
       fragments |->
         [F1 |-> LET f1_fragments == ordered_fragments(fragment_table, s, "F1")
                 IN  [i \in 1..Len(f1_fragments) |-> f1_entry(f1_fragments[i])],
          F2 |-> LET f2_fragments == ordered_fragments(fragment_table, s, "F2")
                 IN  [i \in 1..Len(f2_fragments) |-> f2_entry(f2_fragments[i])]],
       verification_summary |-> verification_summary(fragment_table, s)]

\* ------------------------------------------------------- state
VARIABLES
  submissions,  \* the TextSubmission table: id -> row
  summaries,    \* the Summary table: a set of rows
  fragments,    \* the Fragment table: per submission, its rows in creation order
  pc,           \* per caller: "idle", the endpoint call it waits for
                \* ("s1", "f1", "s2", "f2"), "returned" or "raised"
  op,           \* per caller: the operation it runs
  loc,          \* per caller: the local variables of the operation
  ret,          \* per caller: None, or Some(the value returned)
  err,          \* per caller: the text of the exception caught (str(e))
  exc,          \* per caller: the text of the exception raised to the caller
  nfail,        \* per caller: failures the running operation recorded
  api_calls,    \* per caller: endpoint calls issued by the running operation
  calls         \* operations invoked so far

vars == << submissions, summaries, fragments, pc, op, loc, ret, err, exc,
           nfail, api_calls, calls >>

NoLocals ==
  [sub |-> 0, submission |-> NewSubmission, s1_content |-> << >>,
   f1_fragments |-> << >>, s1_sentences |-> << >>, justifications |-> << >>,
   response |-> << >>, text |-> << >>]

\* the locals of an operation on submission s holding the object `self`
Locals(s, self) == [NoLocals EXCEPT !.sub = s, !.submission = self]

\* the callers run nothing and the store holds the submissions `ids`, new
InitWith(ids) ==
  /\ submissions = [s \in ids |-> NewSubmission]
  /\ summaries = {}
  /\ fragments = [s \in ids |-> << >>]
  /\ pc = [p \in Procs |-> "idle"]
  /\ op = [p \in Procs |-> "none"]
  /\ loc = [p \in Procs |-> NoLocals]
  /\ ret = [p \in Procs |-> None]
  /\ err = [p \in Procs |-> << >>]
  /\ exc = [p \in Procs |-> << >>]
  /\ nfail = [p \in Procs |-> 0]
  /\ api_calls = [p \in Procs |-> 0]
  /\ calls = 0

Init == InitWith({1})

\* a caller can invoke an operation when it runs none
CanCall(p) == pc[p] \in {"idle", "returned", "raised"} /\ calls < MaxCalls

\* Caller p invokes operation o and is next at `at` with the locals `locals`,
\* n endpoint calls issued, the return value r and the caught error text e;
\* prefix is the text the operation puts before the errors it re-raises.
Invoke(p, o, locals, at, n, r, prefix, e) ==
  /\ CanCall(p)
  /\ op' = [op EXCEPT ![p] = o]
  /\ pc' = [pc EXCEPT ![p] = at]
  /\ loc' = [loc EXCEPT ![p] = locals]
  /\ ret' = [ret EXCEPT ![p] = r]
  /\ err' = [err EXCEPT ![p] = e]
  /\ exc' = [exc EXCEPT ![p] = IF at = "raised" THEN prefix \o e ELSE << >>]
  /\ nfail' = [nfail EXCEPT ![p] = 0]
  /\ api_calls' = [api_calls EXCEPT ![p] = n]
  /\ calls' = calls + 1

\* ------------------------------------------------------- full pipeline
\* faulty variant: a failure handler that also deletes what the run stored
process_failed_rollback(p, e) ==
  LET s == loc[p].sub
      submission == mark_failed(submissions[s], e)
  IN  /\ submissions' = [submissions EXCEPT ![s] = save(@, submission, FailedFields)]
      /\ summaries' = {r \in summaries : r.submission # s}
      /\ fragments' = [fragments EXCEPT ![s] = << >>]
      /\ nfail' = [nfail EXCEPT ![p] = @ + 1]
      /\ err' = [err EXCEPT ![p] = e]
      /\ exc' = [exc EXCEPT ![p] = ProcessFailedPrefix \o e]
      /\ pc' = [pc EXCEPT ![p] = "raised"]
      /\ UNCHANGED << op, loc, ret, api_calls, calls >>

\* The except clause of process_text_submission for the exception text e:
\* the submission is fetched again, marked failed, and the error re-raised.
process_failed(p, e) ==
  LET s == loc[p].sub
      submission == mark_failed(submissions[s], e)
  IN  /\ submissions' = [submissions EXCEPT ![s] = save(@, submission, FailedFields)]
      /\ nfail' = [nfail EXCEPT ![p] = @ + 1]
      /\ err' = [err EXCEPT ![p] = e]
      /\ exc' = [exc EXCEPT ![p] = ProcessFailedPrefix \o e]
      /\ pc' = [pc EXCEPT ![p] = "raised"]
      /\ UNCHANGED << summaries, fragments, op, loc, ret, api_calls, calls >>

\* process_text_submission up to the first endpoint call
CallProcess(p, s) ==
  LET submission == start_processing(submissions[s])
  IN  /\ Invoke(p, "process_text_submission", Locals(s, submission), "s1", 1,
                None, ProcessFailedPrefix, << >>)
      /\ submissions' = [submissions EXCEPT ![s] = save(@, submission, StartFields)]
      /\ UNCHANGED << summaries, fragments >>

\* Stage 1 answered: S1 is stored and the fragment prompt sent
ProcessS1(p, answer) ==
  /\ op[p] = "process_text_submission" /\ pc[p] = "s1"
  /\ LET r == make_api_call(answer)
           c == create_summary(summaries, loc[p].sub, "S1", r.value)
       IN  IF ~r.ok THEN process_failed(p, r.error)
           ELSE IF ~c.ok THEN process_failed(p, UniqueViolationText)
           ELSE /\ summaries' = c.table
                /\ loc' = [loc EXCEPT ![p].s1_content = r.value]
                /\ pc' = [pc EXCEPT ![p] = "f1"]
                /\ api_calls' = [api_calls EXCEPT ![p] = @ + 1]
                /\ UNCHANGED << submissions, fragments, op, ret, err, exc, nfail, calls >>

\* Stage 2 answered: the F1 fragments are stored and verified in one
\* transaction and the secondary-summary prompt sent
ProcessF1(p, answer, fz) ==
  /\ op[p] = "process_text_submission" /\ pc[p] = "f1"
  /\ LET r == make_api_call(answer)
           s == loc[p].sub
           f1_fragments == extract_fragments(r.value)
       IN  IF ~r.ok THEN process_failed(p, r.error)
           ELSE /\ fragments' =
                     [fragments EXCEPT ![s] = store_f1(@, s, f1_fragments, fz)]
                /\ loc' = [loc EXCEPT ![p].f1_fragments = f1_fragments]
                /\ pc' = [pc EXCEPT ![p] = "s2"]
                /\ api_calls' = [api_calls EXCEPT ![p] = @ + 1]
                /\ UNCHANGED << submissions, summaries, op, ret, err, exc, nfail, calls >>

\* Stage 3 answered: S2 is stored and S1 split into sentences
ProcessS2(p, answer) ==
  /\ op[p] = "process_text_submission" /\ pc[p] = "s2"
  /\ LET r == make_api_call(answer)
           c == create_summary(summaries, loc[p].sub, "S2", r.value)
       IN  IF ~r.ok THEN process_failed(p, r.error)
           ELSE IF ~c.ok THEN process_failed(p, UniqueViolationText)
           ELSE /\ summaries' = c.table
                /\ loc' = [loc EXCEPT ![p].s1_sentences =
                                        split_into_sentences(loc[p].s1_content)]
                /\ pc' = [pc EXCEPT ![p] = "f2"]
                /\ UNCHANGED << submissions, fragments, op, ret, err, exc, nfail,
                                api_calls, calls >>

\* One iteration of the loop of extract_justification_fragments (stage 4 of
\* the pipeline and extract_f2_fragments): the prompt for the next sentence
\* is sent and answered, or fails and is replaced by the error marker
JustifySentence(p, answer) ==
  /\ pc[p] = "f2"
  /\ Len(loc[p].justifications) < Len(loc[p].s1_sentences)
  /\ LET sentence == loc[p].s1_sentences[Len(loc[p].justifications) + 1]
       IN  loc' = [loc EXCEPT ![p].justifications =
                                 Append(@, justification_pair(sentence, answer))]
  /\ api_calls' = [api_calls EXCEPT ![p] = @ + 1]
  /\ UNCHANGED << submissions, summaries, fragments, pc, op, ret, err, exc, nfail, calls >>

\* The end of the pipeline for caller p: the submission is marked completed
\* and the results are compiled from the store, whose Fragment table for s
\* is `table`
Complete(p, s, table, submission) ==
  /\ fragments' = [fragments EXCEPT ![s] = table]
  /\ submissions' = [submissions EXCEPT ![s] = save(@, submission, CompletedFields)]
  /\ loc' = [loc EXCEPT ![p].submission = submission]
  /\ ret' = [ret EXCEPT ![p] =
               Some(compile_results(submission, s, summaries,
                      RowsOf([fragments EXCEPT ![s] = table], DOMAIN fragments)))]
  /\ pc' = [pc EXCEPT ![p] = "returned"]
  /\ UNCHANGED << summaries, op, err, exc, nfail, api_calls, calls >>

\* Stage 4 ends: the F2 fragments are stored and verified in one transaction,
\* the submission is marked completed and the results are compiled
ProcessF2(p, fz) ==
  /\ op[p] = "process_text_submission" /\ pc[p] = "f2"
  /\ Len(loc[p].justifications) = Len(loc[p].s1_sentences)
  /\ Complete(p, loc[p].sub,
              store_f2(fragments[loc[p].sub], loc[p].sub, loc[p].justifications, fz),
              mark_completed(loc[p].submission))

\* ------------------------------------------------------- progressive stages
\* faulty variant: an except clause that also marks the submission failed
stage_failed_marking(p, prefix, e) ==
  /\ submissions' = [submissions EXCEPT ![loc[p].sub] =
                       save(@, mark_failed(@, e), FailedFields)]
  /\ err' = [err EXCEPT ![p] = e]
  /\ exc' = [exc EXCEPT ![p] = prefix \o e]
  /\ pc' = [pc EXCEPT ![p] = "raised"]
  /\ UNCHANGED << summaries, fragments, op, loc, ret, nfail, api_calls, calls >>

\* The except clause of a progressive operation for the exception text e:
\* the error is logged and re-raised behind the operation's prefix.
stage_failed(p, prefix, e) ==
  /\ err' = [err EXCEPT ![p] = e]
  /\ exc' = [exc EXCEPT ![p] = prefix \o e]
  /\ pc' = [pc EXCEPT ![p] = "raised"]
  /\ UNCHANGED << submissions, summaries, fragments, op, loc, ret, nfail,
                  api_calls, calls >>

\* generate_s1_summary up to the endpoint call
CallGenerateS1(p, s) ==
  /\ Invoke(p, "generate_s1_summary", Locals(s, submissions[s]), "s1", 1,
            None, S1FailedPrefix, << >>)
  /\ UNCHANGED << submissions, summaries, fragments >>

\* generate_s1_summary after the endpoint answered
GenerateS1(p, answer) ==
  /\ op[p] = "generate_s1_summary" /\ pc[p] = "s1"
  /\ LET r == make_api_call(answer)
           c == create_summary(summaries, loc[p].sub, "S1", r.value)
       IN  IF ~r.ok THEN stage_failed(p, S1FailedPrefix, r.error)
           ELSE IF ~c.ok THEN stage_failed(p, S1FailedPrefix, UniqueViolationText)
           ELSE /\ summaries' = c.table
                /\ ret' = [ret EXCEPT ![p] = Some(c.row)]
                /\ pc' = [pc EXCEPT ![p] = "returned"]
                /\ UNCHANGED << submissions, fragments, op, loc, err, exc, nfail,
                                api_calls, calls >>

\* extract_f1_fragments up to the endpoint call
CallExtractF1(p, s) ==
  /\ Invoke(p, "extract_f1_fragments", Locals(s, submissions[s]), "f1", 1,
            None, F1FailedPrefix, << >>)
  /\ UNCHANGED << submissions, summaries, fragments >>

\* A progressive extraction returns: `table` is the Fragment table of s after
\* the transaction, and the rows created are returned
ReturnStored(p, s, table) ==
  /\ fragments' = [fragments EXCEPT ![s] = table]
  /\ ret' = [ret EXCEPT ![p] = Some(SubSeq(table, Len(fragments[s]) + 1, Len(table)))]
  /\ pc' = [pc EXCEPT ![p] = "returned"]
  /\ UNCHANGED << submissions, summaries, op, loc, err, exc, nfail, api_calls, calls >>

\* extract_f1_fragments after the endpoint answered
ExtractF1(p, answer, fz) ==
  /\ op[p] = "extract_f1_fragments" /\ pc[p] = "f1"
  /\ LET r == make_api_call(answer)
     IN  IF ~r.ok THEN stage_failed(p, F1FailedPrefix, r.error)
         ELSE ReturnStored(p, loc[p].sub,
                store_f1(fragments[loc[p].sub], loc[p].sub,
                         extract_fragments(r.value), fz))

\* faulty variant: generate_s2_summary without the check for F1 fragments
CallGenerateS2_unchecked(p, s) ==
  /\ Invoke(p, "generate_s2_summary", Locals(s, submissions[s]), "s2", 1,
            None, S2FailedPrefix, << >>)
  /\ UNCHANGED << submissions, summaries, fragments >>

\* generate_s2_summary up to the endpoint call: it raises at once when the
\* submission has no F1 fragment
CallGenerateS2(p, s) ==
  LET f1_fragments == ordered_fragments(fragments[s], s, "F1")
      f1_contents == [i \in 1..Len(f1_fragments) |-> f1_fragments[i].content]
  IN  /\ IF f1_contents = << >>
         THEN Invoke(p, "generate_s2_summary", Locals(s, submissions[s]),
                     "raised", 0, None, S2FailedPrefix, NoF1Text)
         ELSE Invoke(p, "generate_s2_summary",
                     [Locals(s, submissions[s]) EXCEPT !.f1_fragments = f1_contents],
                     "s2", 1, None, S2FailedPrefix, << >>)
      /\ UNCHANGED << submissions, summaries, fragments >>

\* generate_s2_summary after the endpoint answered
GenerateS2(p, answer) ==
  /\ op[p] = "generate_s2_summary" /\ pc[p] = "s2"
  /\ LET r == make_api_call(answer)
           c == create_summary(summaries, loc[p].sub, "S2", r.value)
       IN  IF ~r.ok THEN stage_failed(p, S2FailedPrefix, r.error)
           ELSE IF ~c.ok THEN stage_failed(p, S2FailedPrefix, UniqueViolationText)
           ELSE /\ summaries' = c.table
                /\ ret' = [ret EXCEPT ![p] = Some(c.row)]
                /\ pc' = [pc EXCEPT ![p] = "returned"]
                /\ UNCHANGED << submissions, fragments, op, loc, err, exc, nfail,
                                api_calls, calls >>

\* extract_f2_fragments up to the first endpoint call: it raises at once when
\* the submission has no S1 summary, else S1 is split into sentences
CallExtractF2(p, s) ==
  LET s1_summary == first_summary(summaries, s, "S1")
  IN  /\ IF s1_summary = None
         THEN Invoke(p, "extract_f2_fragments", Locals(s, submissions[s]),
                     "raised", 0, None, F2FailedPrefix, NoS1Text)
         ELSE Invoke(p, "extract_f2_fragments",
                     [Locals(s, submissions[s]) EXCEPT
                        !.s1_content = s1_summary[1].content,
                        !.s1_sentences = split_into_sentences(s1_summary[1].content)],
                     "f2", 0, None, F2FailedPrefix, << >>)
      /\ UNCHANGED << submissions, summaries, fragments >>

\* extract_f2_fragments after the loop: the F2 fragments are stored and
\* verified in one transaction
ExtractF2(p, fz) ==
  /\ op[p] = "extract_f2_fragments" /\ pc[p] = "f2"
  /\ Len(loc[p].justifications) = Len(loc[p].s1_sentences)
  /\ ReturnStored(p, loc[p].sub,
       store_f2(fragments[loc[p].sub], loc[p].sub, loc[p].justifications, fz))

\* The database raises inside the transaction of a fragment stage (F1 after
\* the endpoint answered, F2 after the loop over the sentences), in its
\* iteration fail_at: the block is rolled back and the except clause of the
\* operation runs
FragmentStageFails(p, answer, fz, fail_at) ==
  /\ pc[p] \in {"f1", "f2"}
  /\ pc[p] = "f1" => make_api_call(answer).ok
  /\ pc[p] = "f2" => Len(loc[p].justifications) = Len(loc[p].s1_sentences)
  /\ LET s == loc[p].sub
         stored == IF pc[p] = "f1"
                   THEN store_f1(fragments[s], s,
                                 extract_fragments(make_api_call(answer).value), fz)
                   ELSE store_f2(fragments[s], s, loc[p].justifications, fz)
         e == << "d", "a", "t", "a", "b", "a", "s", "e", " ", "i", "s", " ",
                 "l", "o", "c", "k", "e", "d" >>
         prefix == IF op[p] = "process_text_submission" THEN ProcessFailedPrefix
                   ELSE IF pc[p] = "f1" THEN F1FailedPrefix ELSE F2FailedPrefix
     IN  /\ fail_at \in 1..(Len(stored) - Len(fragments[s]))
         /\ fragments' = [fragments EXCEPT ![s] = transaction_atomic(@, stored, fail_at)]
         /\ IF op[p] = "process_text_submission"
            THEN /\ submissions' = [submissions EXCEPT ![s] =
                                      save(@, mark_failed(@, e), FailedFields)]
                 /\ nfail' = [nfail EXCEPT ![p] = @ + 1]
            ELSE UNCHANGED << submissions, nfail >>
         /\ err' = [err EXCEPT ![p] = e]
         /\ exc' = [exc EXCEPT ![p] = prefix \o e]
         /\ pc' = [pc EXCEPT ![p] = "raised"]
         /\ UNCHANGED << summaries, op, loc, ret, api_calls, calls >>

\* complete_verification: the statistics over the stored fragments, then the
\* submission is marked completed
CompleteVerification(p, s) ==
  LET stats == verification_summary(fragments[s], s)
      submission == mark_completed(submissions[s])
  IN  /\ Invoke(p, "complete_verification", Locals(s, submission), "returned", 0,
                Some(stats), VerificationFailedPrefix, << >>)
      /\ submissions' = [submissions EXCEPT ![s] = save(@, submission, CompletedFields)]
      /\ UNCHANGED << summaries, fragments >>

\* ------------------------------------------------------- direct lifecycle calls
\* submission.start_processing() on the stored submission
StartProcessing(p, s) ==
  LET submission == start_processing(submissions[s])
  IN  /\ Invoke(p, "start_processing", Locals(s, submission), "returned", 0,
                None, << >>, << >>)
      /\ submissions' = [submissions EXCEPT ![s] = save(@, submission, StartFields)]
      /\ UNCHANGED << summaries, fragments >>

\* submission.mark_completed() on the stored submission
MarkCompleted(p, s) ==
  LET submission == mark_completed(submissions[s])
  IN  /\ Invoke(p, "mark_completed", Locals(s, submission), "returned", 0,
                None, << >>, << >>)
      /\ submissions' = [submissions EXCEPT ![s] = save(@, submission, CompletedFields)]
      /\ UNCHANGED << summaries, fragments >>

\* submission.mark_failed("Test error") on the stored submission
MarkFailed(p, s) ==
  LET submission == mark_failed(submissions[s], TestErrorText)
  IN  /\ Invoke(p, "mark_failed", Locals(s, submission), "returned", 0,
                None, << >>, << >>)
      /\ submissions' = [submissions EXCEPT ![s] = save(@, submission, FailedFields)]
      /\ UNCHANGED << summaries, fragments >>

\* ------------------------------------------------------- direct verifier calls
\* fragment._calculate_similarity_scores(submission.original_text) on the
\* stored fragment i of submission s: the result is returned, nothing stored
CalculateSimilarity(p, s, i, fz) ==
  /\ Invoke(p, "calculate_similarity_scores", Locals(s, submissions[s]),
            "returned", 0,
            Some(calculate_similarity_scores(fragments[s][i].content,
                                             OriginalText(s), fz)),
            << >>, << >>)
  /\ UNCHANGED << submissions, summaries, fragments >>

\* verify_against_text ends: the updated row is saved and self.verified is
\* returned (as the record [verified |-> ...])
SaveVerified(p, s, i, row) ==
  /\ Invoke(p, "verify_against_text", Locals(s, submissions[s]), "returned", 0,
            Some([verified |-> row.verified]), << >>, << >>)
  /\ fragments' = [fragments EXCEPT ![s][i] = row]
  /\ UNCHANGED << submissions, summaries >>

\* fragment.verify_against_text(submission.original_text) on the stored
\* fragment i of submission s
VerifyAgainstText(p, s, i, fz) ==
  SaveVerified(p, s, i, verify_against_text(fragments[s][i], OriginalText(s), fz))

\* VerificationService.verify_fragment_in_text(fragment.content,
\* submission.original_text) for the stored fragment i of submission s
VerifyFragmentInText(p, s, i) ==
  /\ Invoke(p, "verify_fragment_in_text", Locals(s, submissions[s]),
            "returned", 0,
            Some(verify_fragment_in_text(fragments[s][i].content, OriginalText(s))),
            << >>, << >>)
  /\ UNCHANGED << submissions, summaries, fragments >>

\* VerificationService.bulk_verify_fragments(fragments, original_text) on the
\* stored fragments of submission s: each one gets verified and the offsets
\* of the legacy verifier's result and is saved with these three fields; the
\* statistics are returned
BulkVerifyFragments(p, s) ==
  LET result(f) == verify_fragment_in_text(f.content, OriginalText(s))
      updated(f, r) ==
        [f EXCEPT !.verified = r.verified,
                  !.start_position = IF r.verified THEN r.start_position ELSE None,
                  !.end_position = IF r.verified THEN r.end_position ELSE None]
      rows == [i \in 1..Len(fragments[s]) |->
                 updated(fragments[s][i], result(fragments[s][i]))]
      n_verified == Cardinality({i \in 1..Len(rows) : rows[i].verified})
  IN  /\ Invoke(p, "bulk_verify_fragments", Locals(s, submissions[s]),
                "returned", 0,
                Some([total_fragments |-> Len(rows),
                      verified_count |-> n_verified,
                      results |-> [i \in 1..Len(rows) |->
                                     result(fragments[s][i])]]),
                << >>, << >>)
      /\ fragments' = [fragments EXCEPT ![s] = rows]
      /\ UNCHANGED << submissions, summaries >>

\* ------------------------------------------------------- direct client calls
\* OpenAIService.extract_fragments with the endpoint answering `answer`: the
\* ten strings are returned, or the error of _make_api_call is raised
ExtractFragments(p, answer) ==
  /\ LET response == make_api_call(answer)
     IN  IF response.ok
         THEN Invoke(p, "extract_fragments",
                     [NoLocals EXCEPT !.response = response.value], "returned", 1,
                     Some(extract_fragments(response.value)), << >>, << >>)
         ELSE Invoke(p, "extract_fragments", NoLocals, "raised", 1, None,
                     << >>, response.error)
  /\ UNCHANGED << submissions, summaries, fragments >>

\* services.split_into_sentences(text)
SplitIntoSentences(p, text) ==
  /\ Invoke(p, "split_into_sentences", [NoLocals EXCEPT !.text = text],
            "returned", 0, Some(split_into_sentences(text)), << >>, << >>)
  /\ UNCHANGED << submissions, summaries, fragments >>

\* ------------------------------------------------------- endpoint prompts
\* faulty variant: the secondary summary asked for from the original text
service_call_from_text(p) ==
  [call |-> IF pc[p] = "s1" THEN "generate_primary_summary"
            ELSE IF pc[p] = "f1" THEN "extract_fragments"
            ELSE IF pc[p] = "s2" THEN "generate_secondary_summary"
            ELSE IF pc[p] = "f2" THEN "extract_justification_fragments"
            ELSE "",
   original_text |-> IF pc[p] \in {"s1", "f1", "s2", "f2"}
                     THEN OriginalText(loc[p].sub) ELSE << >>,
   fragments |-> << >>,
   summary_sentences |-> IF pc[p] = "f2" THEN loc[p].s1_sentences ELSE << >>]

\* The service call caller p waits for, with its arguments: the summary and
\* the fragments are asked for from submission.original_text, the secondary
\* summary from the list of fragment contents, the justifications from the
\* original text and the sentences of S1
service_call(p) ==
  [call |-> IF pc[p] = "s1" THEN "generate_primary_summary"
            ELSE IF pc[p] = "f1" THEN "extract_fragments"
            ELSE IF pc[p] = "s2" THEN "generate_secondary_summary"
            ELSE IF pc[p] = "f2" THEN "extract_justification_fragments"
            ELSE "",
   original_text |-> IF pc[p] \in {"s1", "f1", "f2"}
                     THEN OriginalText(loc[p].sub) ELSE << >>,
   fragments |-> IF pc[p] = "s2" THEN loc[p].f1_fragments ELSE << >>,
   summary_sentences |-> IF pc[p] = "f2" THEN loc[p].s1_sentences ELSE << >>]

\* ------------------------------------------------------- views
\* views.start_processing on the request body Requests[k], the endpoint
\* answering the summary prompt with `answer`: 400 on an invalid body, else
\* the submission is created and started and generate_s1_summary runs; 201
\* with the summary, or the submission is marked failed and 500.  The id of
\* the submission created is above the fixtures' and tells the request: the
\* first one free of 5 + k, 5 + k + Len(Requests), ...
StartProcessingView(p, k, answer) ==
  /\ CanCall(p)
  /\ LET serializer == Serializers[k]
          free == {5 + k + Len(Requests) * n : n \in 0..Cardinality(DOMAIN submissions)}
                    \ DOMAIN submissions
          s == CHOOSE x \in free : \A y \in free : x <= y
          submission == start_processing(NewSubmission)
          r == make_api_call(answer)
          c == create_summary(summaries, s, "S1", r.value)
          e == S1FailedPrefix \o (IF r.ok THEN UniqueViolationText ELSE r.error)
          locals == [NoLocals EXCEPT !.text = IF Requests[k] = << >> THEN << >>
                                               ELSE Requests[k][1]]
      IN  IF ~serializer.ok
          THEN /\ Invoke(p, "start_processing_view", locals, "returned", 0,
                         Some([status_code |-> 400, submission_id |-> 0,
                               s1_summary |-> << >>, details |-> << >>]),
                         << >>, << >>)
               /\ UNCHANGED << submissions, summaries, fragments >>
          ELSE IF r.ok /\ c.ok
          THEN /\ Invoke(p, "start_processing_view",
                         [locals EXCEPT !.sub = s, !.submission = submission,
                                        !.s1_content = r.value],
                         "returned", 1,
                         Some([status_code |-> 201, submission_id |-> s,
                               s1_summary |-> c.row.content, details |-> << >>]),
                         << >>, << >>)
               /\ submissions' = [x \in DOMAIN submissions \cup {s} |->
                                   IF x = s THEN save(NewSubmission, submission, StartFields)
                                   ELSE submissions[x]]
               /\ summaries' = c.table
               /\ fragments' = [x \in DOMAIN fragments \cup {s} |->
                                 IF x = s THEN << >> ELSE fragments[x]]
          ELSE /\ Invoke(p, "start_processing_view",
                         [locals EXCEPT !.sub = s,
                                        !.submission = mark_failed(submission, e)],
                         "returned", 1,
                         Some([status_code |-> 500, submission_id |-> 0,
                               s1_summary |-> << >>, details |-> e]),
                         << >>, e)
               /\ submissions' = [x \in DOMAIN submissions \cup {s} |->
                                   IF x = s
                                   THEN save(save(NewSubmission, submission, StartFields),
                                             mark_failed(submission, e), FailedFields)
                                   ELSE submissions[x]]
               /\ fragments' = [x \in DOMAIN fragments \cup {s} |->
                                 IF x = s THEN << >> ELSE fragments[x]]
               /\ UNCHANGED summaries

\* faulty variant: the results view without the check of the status
GetProcessingResults_any_status(p, s) ==
  /\ Invoke(p, "get_processing_results", [NoLocals EXCEPT !.sub = s], "returned", 0,
            Some(IF s \notin DOMAIN submissions
                 THEN [status_code |-> 404, current_status |-> "", data |-> << >>]
                 ELSE [status_code |-> 200, current_status |-> "",
                       data |-> Some(compile_results(submissions[s], s, summaries,
                                                     RowsOf(fragments, DOMAIN fragments)))]),
            << >>, << >>)
  /\ UNCHANGED << submissions, summaries, fragments >>

\* views.get_processing_results for the id s, a read of the store: 404 for an
\* unknown id, 400 with the current status unless the submission is
\* completed, else 200 with the compiled results
GetProcessingResults(p, s) ==
  /\ Invoke(p, "get_processing_results", [NoLocals EXCEPT !.sub = s], "returned", 0,
            Some(IF s \notin DOMAIN submissions
                 THEN [status_code |-> 404, current_status |-> "", data |-> << >>]
                 ELSE IF submissions[s].status # "completed"
                 THEN [status_code |-> 400, current_status |-> submissions[s].status,
                       data |-> << >>]
                 ELSE [status_code |-> 200, current_status |-> "",
                       data |-> Some(compile_results(submissions[s], s, summaries,
                                                     RowsOf(fragments, DOMAIN fragments)))]),
            << >>, << >>)
  /\ UNCHANGED << submissions, summaries, fragments >>

\* the progressive stage views (urls: extract-f1, generate-s2, extract-f2,
\* verify), named after the processor operation each one calls
StageViews ==
  {"extract_f1_fragments", "generate_s2_summary", "extract_f2_fragments",
   "complete_verification"}

\* faulty variant: a stage view without the check of the status
StageView_unchecked(p, s, view) ==
  CASE view = "extract_f1_fragments" -> CallExtractF1(p, s)
    [] view = "generate_s2_summary" -> CallGenerateS2(p, s)
    [] view = "extract_f2_fragments" -> CallExtractF2(p, s)
    [] view = "complete_verification" -> CompleteVerification(p, s)

\* A stage view for the stored submission s: 400 at once for a failed
\* submission, else the processor operation of the view runs
StageView(p, s, view) ==
  IF submissions[s].status = "failed"
  THEN /\ Invoke(p, "stage_view", Locals(s, submissions[s]), "returned", 0,
                 Some([status_code |-> 400, view |-> view,
                       error |-> "Cannot process failed submission"]),
                 << >>, << >>)
       /\ UNCHANGED << submissions, summaries, fragments >>
  ELSE CASE view = "extract_f1_fragments" -> CallExtractF1(p, s)
         [] view = "generate_s2_summary" -> CallGenerateS2(p, s)
         [] view = "extract_f2_fragments" -> CallExtractF2(p, s)
         [] view = "complete_verification" -> CompleteVerification(p, s)

\* ------------------------------------------------------- specifications
\* the caller of the sequential specification
Caller == "w1"

\* One caller: operations run one after the other
Next ==
  \/ \E s \in DOMAIN submissions : CallProcess(Caller, s)
  \/ \E answer \in S1Answers : ProcessS1(Caller, answer)
  \/ \E answer \in F1Answers, fz \in FuzzOracles : ProcessF1(Caller, answer, fz)
  \/ \E answer \in S2Answers : ProcessS2(Caller, answer)
  \/ \E answer \in F2Answers : JustifySentence(Caller, answer)
  \/ \E fz \in FuzzOracles : ProcessF2(Caller, fz)
  \/ \E s \in DOMAIN submissions : CallGenerateS1(Caller, s)
  \/ \E answer \in S1Answers : GenerateS1(Caller, answer)
  \/ \E s \in DOMAIN submissions : CallExtractF1(Caller, s)
  \/ \E answer \in F1Answers, fz \in FuzzOracles : ExtractF1(Caller, answer, fz)
  \/ \E s \in DOMAIN submissions : CallGenerateS2(Caller, s)
  \/ \E answer \in S2Answers : GenerateS2(Caller, answer)
  \/ \E s \in DOMAIN submissions : CallExtractF2(Caller, s)
  \/ \E fz \in FuzzOracles : ExtractF2(Caller, fz)
  \/ \E s \in DOMAIN submissions : CompleteVerification(Caller, s)
  \/ \E s \in DOMAIN submissions : StartProcessing(Caller, s)
  \/ \E s \in DOMAIN submissions : MarkCompleted(Caller, s)
  \/ \E s \in DOMAIN submissions : MarkFailed(Caller, s)
  \/ \E s \in DOMAIN submissions, view \in StageViews : StageView(Caller, s, view)

Spec == Init /\ [][Next]_vars

\* Concurrent callers: full-pipeline runs and progressive stage calls
\* interleave at their endpoint calls.  The summary prompts fail or are
\* answered; the fragment and justification prompts are answered.
Quotes == ApiContent(FragmentsFull)
Justification == ApiContent(QuoteCats)
NextConcurrent ==
  \/ \E p \in Procs, s \in DOMAIN submissions : CallProcess(p, s)
  \/ \E p \in Procs, answer \in S1Answers : ProcessS1(p, answer)
  \/ \E p \in Procs, fz \in FuzzOracles : ProcessF1(p, Quotes, fz)
  \/ \E p \in Procs, answer \in S2Answers : ProcessS2(p, answer)
  \/ \E p \in Procs : JustifySentence(p, Justification)
  \/ \E p \in Procs, fz \in FuzzOracles : ProcessF2(p, fz)
  \/ \E p \in Procs, s \in DOMAIN submissions : CallGenerateS1(p, s)
  \/ \E p \in Procs, answer \in S1Answers : GenerateS1(p, answer)
  \/ \E p \in Procs, s \in DOMAIN submissions : CallExtractF1(p, s)
  \/ \E p \in Procs, fz \in FuzzOracles : ExtractF1(p, Quotes, fz)
  \/ \E p \in Procs, s \in DOMAIN submissions : CallGenerateS2(p, s)
  \/ \E p \in Procs, answer \in S2Answers : GenerateS2(p, answer)
  \/ \E p \in Procs, s \in DOMAIN submissions : CallExtractF2(p, s)
  \/ \E p \in Procs, fz \in FuzzOracles : ExtractF2(p, fz)

SpecConcurrent == Init /\ [][NextConcurrent]_vars

\* Two submissions, each with a caller of its own (w1 for submission 1, w2
\* for submission 2): full-pipeline runs and F1 extractions of the two
\* interleave at their endpoint calls
NextPipelines ==
  \/ \E p \in Procs : CallProcess(p, IF p = "w1" THEN 1 ELSE 2)
  \/ \E p \in Procs, answer \in S1Answers : ProcessS1(p, answer)
  \/ \E p \in Procs, fz \in FuzzOracles : ProcessF1(p, Quotes, fz)
  \/ \E p \in Procs, answer \in S2Answers : ProcessS2(p, answer)
  \/ \E p \in Procs : JustifySentence(p, Justification)
  \/ \E p \in Procs, fz \in FuzzOracles : ProcessF2(p, fz)
  \/ \E p \in Procs : CallExtractF1(p, IF p = "w1" THEN 1 ELSE 2)
  \/ \E p \in Procs, fz \in FuzzOracles : ExtractF1(p, Quotes, fz)
  \/ \E p \in Procs, fz \in FuzzOracles, fail_at \in {1, 2} :
       FragmentStageFails(p, Quotes, fz, fail_at)

SpecPipelines == InitWith({1, 2}) /\ [][NextPipelines]_vars

\* The generation client and the sentence splitter called directly by two
\* callers, no submission in the store
NextClient ==
  \/ \E answer \in {ApiFailure} \cup
                    {ApiContent(c) : c \in {Responses[k] : k \in DOMAIN Responses}
                                            \cup {FragmentsFull, FragmentsShort, << >>}} :
       \E p \in Procs : ExtractFragments(p, answer)
  \/ \E p \in Procs, k \in DOMAIN Texts : SplitIntoSentences(p, Texts[k])

SpecClient == InitWith({}) /\ [][NextClient]_vars

\* The views: a client posts texts to the start view, asks for results, and
\* stored submissions are completed or marked failed in between.  The store
\* starts with one pending submission; 0 is an id no submission has.
NextApi ==
  \/ \E k \in DOMAIN Requests, answer \in S1Answers : StartProcessingView(Caller, k, answer)
  \/ \E s \in DOMAIN submissions \cup {0} : GetProcessingResults(Caller, s)
  \/ \E s \in DOMAIN submissions : CompleteVerification(Caller, s)
  \/ \E s \in DOMAIN submissions : MarkFailed(Caller, s)
SpecApi == InitWith({1}) /\ [][NextApi]_vars

\* The verifiers applied to one stored fragment: the store holds a submission
\* and an F1 fragment of it as created, with sequence number 1; the text and
\* the content are one of the cases
InitVerifier ==
  \E c \in VerifierCases :
    /\ submissions = [s \in {c[1]} |-> NewSubmission]
    /\ summaries = {}
    /\ fragments = [s \in {c[1]} |->
                      << create_fragment(<< s, 1 >>, s, "F1", c[2], None, 1) >>]
    /\ pc = [p \in Procs |-> "idle"]
    /\ op = [p \in Procs |-> "none"]
    /\ loc = [p \in Procs |-> NoLocals]
    /\ ret = [p \in Procs |-> None]
    /\ err = [p \in Procs |-> << >>]
    /\ exc = [p \in Procs |-> << >>]
    /\ nfail = [p \in Procs |-> 0]
    /\ api_calls = [p \in Procs |-> 0]
    /\ calls = 0

NextVerifier ==
  \/ \E s \in DOMAIN submissions, fz \in VerifierOracles :
       \E i \in 1..Len(fragments[s]) : CalculateSimilarity(Caller, s, i, fz)
  \/ \E s \in DOMAIN submissions, fz \in VerifierOracles :
       \E i \in 1..Len(fragments[s]) : VerifyAgainstText(Caller, s, i, fz)
  \/ \E s \in DOMAIN submissions :
       \E i \in 1..Len(fragments[s]) : VerifyFragmentInText(Caller, s, i)
  \/ \E s \in DOMAIN submissions : BulkVerifyFragments(Caller, s)

SpecVerifier == InitVerifier /\ [][NextVerifier]_vars

\* ------------------------------------------------------- properties
Terminal == {"completed", "failed"}
ProgressiveOps ==
  {"generate_s1_summary", "extract_f1_fragments", "generate_s2_summary",
   "extract_f2_fragments"}
StatusOps ==
  {"process_text_submission", "complete_verification", "start_processing",
   "mark_completed", "mark_failed"}

\* the errors a stage of the pipeline raises in this model
StageErrors == {ApiFailedPrefix \o TimeoutText, UniqueViolationText}

\* the rows of one fragment type, in table order
OfType(table, fragment_type) ==
  SelectSeq(table, LAMBDA f : f.fragment_type = fragment_type)

\* the row carries the verifier's result for its content
CarriesResult(f, original_text) ==
  \E fz \in FuzzOracles : f = verify_against_text(f, original_text, fz)

C2_EarlierOutputRetained ==
  \A p \in Procs :
    op[p] = "process_text_submission" /\ pc[p] = "raised"
      /\ loc[p].f1_fragments # << >> =>
        LET s == loc[p].sub
            table == fragments[s]
            base == Len(table) - FragmentCount
        IN  /\ \E r \in summaries :
                 /\ r.submission = s /\ r.summary_type = "S1"
                 /\ r.content = loc[p].s1_content
            /\ base >= 0
            /\ \A i \in 1..FragmentCount :
                 /\ table[base + i].fragment_type = "F1"
                 /\ table[base + i].sequence_number = i
                 /\ table[base + i].content = loc[p].f1_fragments[i]
                 /\ CarriesResult(table[base + i], OriginalText(s))

\* stage 3 failed after two quotes and eight placeholders were stored, one of
\* them verified
C2_Witness ==
  \E p \in Procs :
    /\ op[p] = "process_text_submission" /\ pc[p] = "raised"
    /\ loc[p].f1_fragments # << >>
    /\ Len(fragments[loc[p].sub]) = FragmentCount
    /\ fragments[loc[p].sub][1].verified
    /\ ~fragments[loc[p].sub][2].verified
    /\ submissions[loc[p].sub].status = "failed"

\* C3: once a submission is completed or failed, no step changes its status.
C3_TerminalStatusIsFinal ==
  [][\A s \in DOMAIN submissions :
       submissions[s].status \in Terminal =>
         submissions'[s].status = submissions[s].status]_vars

\* C4: processing_completed_at is set exactly when the status is completed
\* or failed.
C4_CompletedAtIffTerminal ==
  \A s \in DOMAIN submissions :
    submissions[s].processing_completed_at # None
      <=> submissions[s].status \in Terminal

\* C5: a full-pipeline run that returns on a fresh submission leaves it
\* completed with an S1 and an S2 summary, exactly 10 F1 fragments numbered
\* 1..10 and one F2 fragment per sentence of S1; when every content is a
\* verbatim substring of the text, the overall verification rate is 1.
C5_FreshRunComplete ==
  \A p \in Procs :
    op[p] = "process_text_submission" /\ pc[p] = "returned" /\ calls = 1 =>
      LET s == loc[p].sub
          table == fragments[s]
          f1 == OfType(table, "F1")
          f2 == OfType(table, "F2")
          s1 == {r \in summaries : r.submission = s /\ r.summary_type = "S1"}
          s2 == {r \in summaries : r.submission = s /\ r.summary_type = "S2"}
          overall == ret[p][1].verification_summary.overall_verification_rate
      IN  /\ submissions[s].status = "completed"
          /\ s1 # {} /\ s2 # {}
          /\ Len(f1) = 10
          /\ \A i \in 1..Len(f1) : f1[i].sequence_number = i
          /\ \A r \in s1 : Len(f2) = Len(split_into_sentences(r.content))
          /\ (\A i \in 1..Len(table) :
                Find(OriginalText(s), table[i].content) # -1)
               => overall[1] = overall[2] /\ overall[2] = Len(table)

\* a fresh run returned with ten quotes and two justifications, all verbatim
C5_Witness ==
  \E p \in Procs :
    /\ op[p] = "process_text_submission" /\ pc[p] = "returned" /\ calls = 1
    /\ Len(fragments[loc[p].sub]) = 12
    /\ \A i \in 1..Len(fragments[loc[p].sub]) :
         Find(OriginalText(loc[p].sub), fragments[loc[p].sub][i].content) # -1
    /\ ret[p][1].verification_summary.overall_verification_rate = << 12, 12 >>

\* the operation caller p enters in this step is called out of order:
\* generate_s2_summary without an F1 fragment, extract_f2_fragments without
\* an S1 summary
OutOfOrder(p) ==
  LET s == loc'[p].sub
  IN  \/ /\ op'[p] = "generate_s2_summary"
         /\ \A i \in 1..Len(fragments[s]) : fragments[s][i].fragment_type # "F1"
      \/ /\ op'[p] = "extract_f2_fragments"
         /\ \A r \in summaries : ~(r.submission = s /\ r.summary_type = "S1")

\* C6: a progressive call made out of order raises at once, with no endpoint
\* call, no Summary or Fragment row created and the submission unchanged.
C6_OutOfOrderRaises ==
  [][calls' = calls + 1 /\ OutOfOrder(Caller) =>
       /\ pc'[Caller] = "raised"
       /\ err'[Caller] \in {NoF1Text, NoS1Text}
       /\ exc'[Caller] \in {S2FailedPrefix \o NoF1Text, F2FailedPrefix \o NoS1Text}
       /\ api_calls'[Caller] = 0
       /\ UNCHANGED << submissions, summaries, fragments >>]_vars

\* generate_s2_summary was refused on a submission that has its S1 summary
\* but no F1 fragment
C6_Witness ==
  /\ op[Caller] = "generate_s2_summary" /\ pc[Caller] = "raised"
  /\ err[Caller] = NoF1Text /\ api_calls[Caller] = 0
  /\ summaries # {} /\ fragments[loc[Caller].sub] = << >>

\* C7: the steps of the progressive stage operations leave the submission
\* row unchanged, on success and on failure; a step that changes a
\* submission belongs to the pipeline, to complete_verification or to a
\* direct lifecycle call.
C7_ProgressiveKeepsSubmission ==
  [][/\ op'[Caller] \in ProgressiveOps => UNCHANGED submissions
     /\ submissions' # submissions => op'[Caller] \in StatusOps]_vars

\* extract_f1_fragments raised on a submission that is processing, which
\* stays processing with no error message
C7_Witness ==
  /\ op[Caller] = "extract_f1_fragments" /\ pc[Caller] = "raised"
  /\ submissions[loc[Caller].sub].status = "processing"
  /\ submissions[loc[Caller].sub].error_message = None
  /\ submissions[loc[Caller].sub].processing_completed_at = None

\* the number of rows of a type, all of them or the verified ones
CountRows(table, fragment_type, verified_only) ==
  Cardinality({i \in 1..Len(table) :
                 /\ table[i].fragment_type = fragment_type
                 /\ verified_only => table[i].verified})

\* the statistics of complete_verification, counted on the table
StatsOver(table) ==
  LET t1 == CountRows(table, "F1", FALSE)
      v1 == CountRows(table, "F1", TRUE)
      t2 == CountRows(table, "F2", FALSE)
      v2 == CountRows(table, "F2", TRUE)
  IN  [F1_total |-> t1, F1_verified |-> v1,
       F1_verification_rate |-> IF t1 = 0 THEN << 0, 1 >> ELSE << v1, t1 >>,
       F2_total |-> t2, F2_verified |-> v2,
       F2_verification_rate |-> IF t2 = 0 THEN << 0, 1 >> ELSE << v2, t2 >>,
       overall_verification_rate |->
         IF t1 + t2 = 0 THEN << 0, 1 >> ELSE << v1 + v2, t1 + t2 >>]

\* C8: a complete_verification call that returns leaves the submission
\* completed with processing_completed_at set, returns the statistics of the
\* fragments stored at that moment, and creates or modifies no Summary or
\* Fragment row.
C8_CompleteVerificationEffect ==
  [][calls' = calls + 1 /\ op'[Caller] = "complete_verification"
       /\ pc'[Caller] = "returned" =>
       LET s == loc'[Caller].sub
       IN  /\ submissions'[s].status = "completed"
           /\ submissions'[s].processing_completed_at # None
           /\ ret'[Caller] = Some(StatsOver(fragments[s]))
           /\ UNCHANGED << summaries, fragments >>]_vars

\* complete_verification returned the statistics of ten F1 fragments, one of
\* them verified, and two F2 fragments
C8_Witness ==
  /\ op[Caller] = "complete_verification" /\ pc[Caller] = "returned"
  /\ ret[Caller][1].F1_total = 10 /\ ret[Caller][1].F1_verified = 1
  /\ ret[Caller][1].F2_total = 2
  /\ Len(fragments[loc[Caller].sub]) = 12
  /\ submissions[loc[Caller].sub].status = "completed"

\* the error marker of a failed justification call
ErrorMarker ==
  JustificationErrorPrefix \o ApiFailedPrefix \o TimeoutText \o << "]" >>
\* the justification the endpoint quotes, without its quotation marks
CleanQuote == SubSeq(QuoteCats, 2, Len(QuoteCats) - 1)

\* C9: the justification loop yields one (sentence, content) pair per
\* sentence, in order; the content of a failed call is the error marker; a
\* failure never aborts the stage, which goes on to store one F2 fragment per
\* sentence.
C9_JustificationNeverAborts ==
  \A p \in Procs :
    LET ss == loc[p].s1_sentences
        j == loc[p].justifications
        table == fragments[loc[p].sub]
        base == Len(table) - Len(ss)
    IN  /\ Len(j) <= Len(ss)
        /\ \A i \in 1..Len(j) :
             j[i][1] = ss[i] /\ j[i][2] \in {ErrorMarker, CleanQuote}
        /\ ss # << >> => pc[p] \in {"f2", "returned"}
        /\ ss # << >> /\ pc[p] = "returned" =>
             /\ Len(j) = Len(ss) /\ base >= 0
             /\ \A i \in 1..Len(ss) :
                  /\ table[base + i].fragment_type = "F2"
                  /\ table[base + i].sequence_number = i
                  /\ table[base + i].related_sentence = Some(ss[i])
                  /\ table[base + i].content = j[i][2]

\* the call for the first sentence failed, the second sentence was still
\* justified, and both fragments were stored
C9_Witness ==
  \E p \in Procs :
    /\ pc[p] = "returned" /\ Len(loc[p].s1_sentences) = 2
    /\ loc[p].justifications =
         << << loc[p].s1_sentences[1], ErrorMarker >>,
            << loc[p].s1_sentences[2], CleanQuote >> >>
    /\ fragments[loc[p].sub][Len(fragments[loc[p].sub]) - 1].content = ErrorMarker

\* C10: each submission has at most one S1 summary and at most one S2
\* summary, whatever the interleaving of pipeline runs and stage calls.
C10_OneSummaryPerKind ==
  \A s \in DOMAIN submissions, summary_type \in {"S1", "S2"} :
    Cardinality({r \in summaries :
                   r.submission = s /\ r.summary_type = summary_type}) <= 1

\* two callers ran on the same submission at the same time and the store
\* refused the second S1 summary
C10_Witness ==
  \E p \in Procs, q \in Procs :
    /\ p # q /\ loc[p].sub = loc[q].sub
    /\ pc[p] = "raised" /\ err[p] = UniqueViolationText
    /\ pc[q] \in {"f1", "s2", "f2"} /\ op[q] = "process_text_submission"
    /\ \E r \in summaries : r.submission = loc[p].sub /\ r.summary_type = "S1"

\* C11: no two Fragment rows of the same submission and the same type have
\* the same sequence_number.
C11_SequenceNumbersUnique ==
  \A s \in DOMAIN fragments :
    \A i \in 1..Len(fragments[s]), j \in 1..Len(fragments[s]) :
      i # j /\ fragments[s][i].fragment_type = fragments[s][j].fragment_type
        => fragments[s][i].sequence_number # fragments[s][j].sequence_number

\* the rows a progressive operation o creates, among those of submission s
StageRows(o, s, summary_table, fragment_table) ==
  CASE o = "generate_s1_summary" ->
         {r \in summary_table : r.submission = s /\ r.summary_type = "S1"}
    [] o = "generate_s2_summary" ->
         {r \in summary_table : r.submission = s /\ r.summary_type = "S2"}
    [] o = "extract_f1_fragments" ->
         {fragment_table[i] : i \in {k \in 1..Len(fragment_table) :
                                       fragment_table[k].fragment_type = "F1"}}
    [] OTHER ->
         {fragment_table[i] : i \in {k \in 1..Len(fragment_table) :
                                       fragment_table[k].fragment_type = "F2"}}

\* This step ends a progressive stage of caller p that was invoked again on a
\* submission already holding the stage's rows and whose endpoint call was
\* answered
Rerun(p) ==
  /\ op[p] \in ProgressiveOps
  /\ pc[p] \in {"s1", "f1", "s2", "f2"} /\ pc'[p] \in {"returned", "raised"}
  /\ StageRows(op[p], loc[p].sub, summaries, fragments[loc[p].sub]) # {}
  /\ err'[p] # ApiFailedPrefix \o TimeoutText

\* every row stored before the step is stored unchanged after it
RowsKept ==
  /\ summaries \subseteq summaries'
  /\ \A s \in DOMAIN fragments :
       /\ Len(fragments'[s]) >= Len(fragments[s])
       /\ \A i \in 1..Len(fragments[s]) : fragments'[s][i] = fragments[s][i]

\* the step adds rows of the stage of caller p
RowsAdded(p) ==
  \E r \in StageRows(op[p], loc[p].sub, summaries', fragments'[loc[p].sub]) :
    r \notin StageRows(op[p], loc[p].sub, summaries, fragments[loc[p].sub])

\* C12 as stated: a progressive stage invoked again on a submission that
\* holds its rows creates additional rows and leaves every earlier row
\* unchanged.
C12_RerunAddsRows ==
  [][Rerun(Caller) => RowsAdded(Caller) /\ RowsKept]_vars

\* C12 amended: a fragment stage invoked again creates additional rows, a
\* summary stage invoked again raises the uniqueness violation and creates no
\* row; in both cases every earlier row is unchanged.
C12_RerunKeepsRows ==
  [][Rerun(Caller) =>
       /\ RowsKept
       /\ op[Caller] \in {"extract_f1_fragments", "extract_f2_fragments"} =>
            pc'[Caller] = "returned" /\ RowsAdded(Caller)
       /\ op[Caller] \in {"generate_s1_summary", "generate_s2_summary"} =>
            /\ pc'[Caller] = "raised" /\ err'[Caller] = UniqueViolationText
            /\ UNCHANGED << summaries, fragments >>]_vars

\* extract_f1_fragments ran twice on a submission: the ten rows of the first
\* run are followed by the ten rows the second run created and returned
C12_Witness ==
  /\ op[Caller] = "extract_f1_fragments" /\ pc[Caller] = "returned"
  /\ Len(fragments[loc[Caller].sub]) = 2 * FragmentCount
  /\ \A i \in 1..(2 * FragmentCount) :
       /\ fragments[loc[Caller].sub][i].fragment_type = "F1"
       /\ fragments[loc[Caller].sub][i].id = << loc[Caller].sub, i >>
  /\ ret[Caller] = Some(SubSeq(fragments[loc[Caller].sub], FragmentCount + 1,
                               2 * FragmentCount))

\* the caller holds a result of the scored verifier for the stored fragment
Scored == op[Caller] = "calculate_similarity_scores" /\ pc[Caller] = "returned"
\* the fragment the verifiers were applied to, and the text
TheFragment == fragments[loc[Caller].sub][1]
TheText == OriginalText(loc[Caller].sub)

\* x occurs in text at the 0-based position j
OccursAt(text, x, j) ==
  j + Len(x) <= Len(text) /\ Slice(text, j, j + Len(x)) = x
Occurs(text, x) == \E j \in 0..Len(text) : OccursAt(text, x, j)

\* C13: in every result of the scored verifier, verified is true exactly when
\* the similarity score is at least 70 or the match type is exact or
\* case_insensitive.
C13_VerifiedIffThreshold ==
  Scored =>
    (ret[Caller][1].verified <=>
       \/ ScoreGE(ret[Caller][1].similarity_score, Pct(70))
       \/ ret[Caller][1].match_type \in {"exact", "case_insensitive"})

\* a window scored 76.5: the partial result is verified
C13_Witness ==
  /\ Scored
  /\ ret[Caller][1].match_type = "partial"
  /\ ret[Caller][1].similarity_score = << 7650, 100 >>
  /\ ret[Caller][1].verified

\* C14: when the trimmed content occurs verbatim in the text, the scored
\* verifier returns exact, score 100, verified, and the offsets of the first
\* occurrence, so that the text between the offsets is the trimmed content;
\* no later tier is consulted.
C14_ExactMatch ==
  Scored /\ Occurs(TheText, Strip(TheFragment.content)) =>
    /\ ret[Caller][1].match_type = "exact"
    /\ ret[Caller][1].similarity_score = Pct(100)
    /\ ret[Caller][1].verified
    /\ ret[Caller][1].start_position # None
    /\ ret[Caller][1].end_position # None
    /\ Slice(TheText, ret[Caller][1].start_position[1],
             ret[Caller][1].end_position[1]) = Strip(TheFragment.content)
    /\ ret[Caller][1].end_position[1] =
         ret[Caller][1].start_position[1] + Len(Strip(TheFragment.content))
    /\ \A j \in 0..(ret[Caller][1].start_position[1] - 1) :
         ~OccursAt(TheText, Strip(TheFragment.content), j)

\* a quote that occurs at the positions 1 and 6 of the text is found at 1
C14_Witness ==
  /\ Scored
  /\ TheFragment.content = Content.repeated
  /\ OccursAt(TheText, Content.repeated, 1)
  /\ OccursAt(TheText, Content.repeated, 6)
  /\ ret[Caller][1].match_type = "exact"
  /\ ret[Caller][1].start_position = Some(1)
  /\ ret[Caller][1].end_position = Some(2)

\* the content of fragment f, trimmed, occurs verbatim in the text (the exact
\* tier decides), or only its lower-case form occurs in the lower-case text
\* (the case-insensitive tier decides)
ExactCase(f, text) == Occurs(text, Strip(f.content))
CaseInsensitiveCase(f, text) ==
  ~ExactCase(f, text) /\ Occurs(Lower(text), Lower(Strip(f.content)))

\* the text between the stored offsets of fragment f
SliceOf(text, f) == Slice(text, f.start_position[1], f.end_position[1])

C16_CaseInsensitiveMatch ==
  Scored /\ CaseInsensitiveCase(TheFragment, TheText) =>
    /\ ret[Caller][1].match_type = "case_insensitive"
    /\ ret[Caller][1].similarity_score = Pct(95)
    /\ ret[Caller][1].verified
    /\ ret[Caller][1].start_position # None
    /\ ret[Caller][1].end_position # None
    /\ Len(SliceOf(TheText, ret[Caller][1])) = Len(Strip(TheFragment.content))
    /\ Lower(SliceOf(TheText, ret[Caller][1])) = Lower(Strip(TheFragment.content))
    /\ \A j \in 0..(ret[Caller][1].start_position[1] - 1) :
         ~OccursAt(Lower(TheText), Lower(Strip(TheFragment.content)), j)

\* a score is a percentage between 0 and 100
InRange(score) == ScoreGE(score, Pct(0)) /\ ScoreGE(Pct(100), score)

\* C17: the similarity score of every result of the scored verifier, and of
\* every stored fragment, lies between 0 and 100, the metrics of the
\* similarity library being between 0 and 100.
C17_ScoreInRange ==
  /\ Scored => InRange(ret[Caller][1].similarity_score)
  /\ \A s \in DOMAIN fragments : \A i \in 1..Len(fragments[s]) :
       InRange(fragments[s][i].similarity_score)

\* all four metrics of a window were 100: the partial result scores 100
C17_Witness ==
  /\ Scored
  /\ ret[Caller][1].match_type = "partial"
  /\ ret[Caller][1].similarity_score = CombinedScore(FullMetrics)
  /\ ScoreGE(ret[Caller][1].similarity_score, Pct(100))

\* C18: for an empty or blank content, or an empty text, the scored verifier
\* returns score 0, no_match, not verified and no offsets.
C18_DegenerateIsNoMatch ==
  Scored /\ (Strip(TheFragment.content) = << >> \/ TheText = << >>) =>
    /\ ret[Caller][1].similarity_score = Pct(0)
    /\ ret[Caller][1].match_type = "no_match"
    /\ ~ret[Caller][1].verified
    /\ ret[Caller][1].start_position = None
    /\ ret[Caller][1].end_position = None

\* C19: a content that occurs in the text neither verbatim nor in lower case
\* and has no word in common with it scores 0, no_match and not verified.
C19_UnrelatedIsNoMatch ==
  /\ Scored
  /\ ~Occurs(TheText, Strip(TheFragment.content))
  /\ ~Occurs(Lower(TheText), Lower(Strip(TheFragment.content)))
  /\ WordSet(Lower(Strip(TheFragment.content))) \cap WordSet(Lower(TheText)) = {}
  => /\ ret[Caller][1].similarity_score = Pct(0)
     /\ ret[Caller][1].match_type = "no_match"
     /\ ~ret[Caller][1].verified

\* C20: when verify_against_text returns False, the stored fragment is not
\* verified and has no offsets; when the legacy verifier does not verify, its
\* result is no_match without offsets.
C20_UnverifiedHasNoOffsets ==
  /\ (op[Caller] = "verify_against_text" /\ pc[Caller] = "returned"
        /\ ~ret[Caller][1].verified)
     => (/\ ~TheFragment.verified
         /\ TheFragment.start_position = None
         /\ TheFragment.end_position = None)
  /\ (op[Caller] = "verify_fragment_in_text" /\ pc[Caller] = "returned"
        /\ ~ret[Caller][1].verified)
     => (/\ ret[Caller][1].match_type = "no_match"
         /\ ret[Caller][1].start_position = None
         /\ ret[Caller][1].end_position = None)

\* the fragment as it was created, before any verification
AsCreated(f) ==
  create_fragment(f.id, f.submission, f.fragment_type, f.content,
                  f.related_sentence, f.sequence_number)

\* the caller's operation o has returned
Returned(o) == op[Caller] = o /\ pc[Caller] = "returned"

\* the step is a call of operation o that returns
Calls(o) == calls' = calls + 1 /\ op'[Caller] = o /\ pc'[Caller] = "returned"

HasSummary ==
  Returned("complete_verification") \/ Returned("process_text_submission")
VerificationSummary ==
  IF op[Caller] = "complete_verification" THEN ret[Caller][1]
  ELSE ret[Caller][1].verification_summary

\* the fraction is verified/total for a positive total and exactly 0 for
\* none, and lies between 0 and 1
IsRate(r, verified, total) ==
  /\ verified <= total
  /\ r = IF total > 0 THEN << verified, total >> ELSE << 0, 1 >>
  /\ r[2] > 0 /\ 0 <= r[1] /\ r[1] <= r[2]

\* C22: in the summary of compile_results and of complete_verification the
\* totals and verified counts are those of the stored fragments of the
\* submission, each rate is verified/total for a positive total and exactly
\* 0 otherwise, the overall rate is that of the sums, no verified count
\* exceeds its total and every rate lies in [0, 1].
C22_VerificationRates ==
  HasSummary =>
    LET v == VerificationSummary
        table == fragments[loc[Caller].sub]
    IN  /\ v.F1_total = CountRows(table, "F1", FALSE)
        /\ v.F1_verified = CountRows(table, "F1", TRUE)
        /\ v.F2_total = CountRows(table, "F2", FALSE)
        /\ v.F2_verified = CountRows(table, "F2", TRUE)
        /\ IsRate(v.F1_verification_rate, v.F1_verified, v.F1_total)
        /\ IsRate(v.F2_verification_rate, v.F2_verified, v.F2_total)
        /\ IsRate(v.overall_verification_rate,
                  v.F1_verified + v.F2_verified, v.F1_total + v.F2_total)

\* complete_verification returned for ten F1 fragments, one of them verified,
\* and no F2 fragment: the rates are 1/10, 0 and 1/10
C22_Witness ==
  /\ Returned("complete_verification")
  /\ VerificationSummary.F1_verification_rate = << 1, 10 >>
  /\ VerificationSummary.F2_total = 0
  /\ VerificationSummary.F2_verification_rate = << 0, 1 >>
  /\ VerificationSummary.overall_verification_rate = << 1, 10 >>

\* the entries list, each once, the rows of the store that belong to
\* submission s and have the type, in ascending sequence_number order
ListsRows(entries, s, fragment_type) ==
  LET all == RowsOf(fragments, DOMAIN fragments)
      mine == {i \in 1..Len(all) : /\ all[i].submission = s
                                    /\ all[i].fragment_type = fragment_type}
  IN  /\ Len(entries) = Cardinality(mine)
      /\ {entries[i].id : i \in 1..Len(entries)} = {all[i].id : i \in mine}
      /\ \A i \in 1..Len(entries) : \E j \in mine :
           /\ entries[i].id = all[j].id
           /\ entries[i].content = all[j].content
           /\ entries[i].sequence_number = all[j].sequence_number
      /\ \A i, j \in 1..Len(entries) :
           i < j => entries[i].sequence_number <= entries[j].sequence_number

\* C23: the F1 and the F2 array of the document compile_results returns list
\* all fragments of that kind of the submission, in ascending
\* sequence_number order, and no fragment of the other kind or of another
\* submission.
C23_ArraysListOwnFragments ==
  \A p \in Procs :
    op[p] = "process_text_submission" /\ pc[p] = "returned" =>
      /\ ListsRows(ret[p][1].fragments.F1, loc[p].sub, "F1")
      /\ ListsRows(ret[p][1].fragments.F2, loc[p].sub, "F2")

\* a pipeline run returned its document while the other submission holds
\* fragments too: the arrays list the ten F1 and the two F2 fragments of the
\* run's own submission
C23_Witness ==
  \E p \in Procs :
    /\ op[p] = "process_text_submission" /\ pc[p] = "returned"
    /\ Len(ret[p][1].fragments.F1) = 10
    /\ Len(ret[p][1].fragments.F2) = 2
    /\ \A i \in 1..10 : ret[p][1].fragments.F1[i].id[1] = loc[p].sub
    /\ \E s \in DOMAIN fragments : s # loc[p].sub /\ Len(fragments[s]) = 10

\* the stripped line is a number, one of the marks and a text
NumberedLine(line) ==
  LET d == SkipRun(line, 1, Digits)
  IN  /\ d > 1 /\ d <= Len(line) /\ line[d] \in ListMarks
      /\ Strip(SubSeq(line, d + 1, Len(line))) # << >>
\* the text of a numbered line
AfterNumber(line) ==
  Strip(SubSeq(line, SkipRun(line, 1, Digits) + 1, Len(line)))
\* the stripped lines of a response
StrippedLines(response) ==
  LET lines == SplitLines(Strip(response), 1, 1)
  IN  {Strip(lines[i]) : i \in 1..Len(lines)}

\* C24: extract_fragments returns exactly 10 strings: when the response
\* parses to n < 10 items, these in order and then the placeholders
\* "Fragment k not extracted" for k = n+1..10; when it parses to more, the
\* first 10 in order.  An item is the text of a numbered line without
\* number and mark ("1.", "1)", "1:"), or an unnumbered line.
C24_ExactlyTenFragments ==
  \A p \in Procs : op[p] = "extract_fragments" /\ pc[p] = "returned" =>
    LET items == parse_numbered_list(loc[p].response)
        n == Len(items)
        kept == IF n < FragmentCount THEN n ELSE FragmentCount
        fragments_out == ret[p][1]
    IN  /\ Len(fragments_out) = FragmentCount
        /\ \A k \in 1..kept : fragments_out[k] = items[k]
        /\ \A k \in (kept + 1)..FragmentCount :
             fragments_out[k] = PlaceholderHead \o IntToStr(k) \o PlaceholderTail
        /\ \A k \in 1..kept :
             \E line \in StrippedLines(loc[p].response) :
               fragments_out[k] = IF NumberedLine(line) THEN AfterNumber(line)
                                  ELSE line

\* the response of twelve items numbered with the three marks was cut to
\* its first ten items, none of which keeps its number
C24_Witness ==
  /\ Returned("extract_fragments")
  /\ loc[Caller].response = Responses.twelve
  /\ Len(ret[Caller][1]) = 10
  /\ ret[Caller][1][2] = << "c", "d" >>
  /\ ret[Caller][1][3] = << "e", "f" >>
  /\ ret[Caller][1][10] = << "s", "t" >>

\* the gap between two pieces: runs of terminators, each followed by a run
\* of whitespace
IsSeparators(gap) ==
  /\ gap # << >>
  /\ \A i \in 1..Len(gap) : gap[i] \in Terminators \cup Whitespace
  /\ gap[1] \in Terminators /\ gap[Len(gap)] \in Whitespace

\* a piece of the split: it begins with no blank and contains no terminator
\* followed by a blank
IsPiece(q) ==
  /\ q # << >> /\ q[1] \notin Whitespace
  /\ \A i \in 1..(Len(q) - 1) : ~(q[i] \in Terminators /\ q[i + 1] \in Whitespace)

\* the sentences are, in order, the pieces of the text from offset `from`
\* on, a piece that ends with no terminator having got a period
RECURSIVE IsSplit(_, _, _)
IsSplit(text, from, sentences) ==
  IF sentences = << >> THEN from = Len(text)
  ELSE \E pos \in from..Len(text), end \in (from + 1)..Len(text) :
         /\ pos < end
         /\ IF pos = from THEN from = 0 ELSE IsSeparators(Slice(text, from, pos))
         /\ IsPiece(Slice(text, pos, end))
         /\ end < Len(text) => /\ text[end] \notin Terminators
                               /\ text[end + 1] \in Terminators
         /\ Head(sentences) = IF text[end] \in Terminators
                               THEN Slice(text, pos, end)
                               ELSE Slice(text, pos, end) \o << "." >>
         /\ IsSplit(text, end, Tail(sentences))

\* C25: split_into_sentences returns, in input order, the trimmed non-empty
\* pieces of the text split at runs of '.', '!' or '?' followed by
\* whitespace, a '.' appended to a piece that lacks terminal punctuation, so
\* that every sentence ends with '.', '!' or '?'.
C25_SentencesArePieces ==
  \A p \in Procs : op[p] = "split_into_sentences" /\ pc[p] = "returned" =>
    /\ IsSplit(Strip(loc[p].text), 0, ret[p][1])
    /\ \A i \in 1..Len(ret[p][1]) :
         /\ EndsWithAny(ret[p][1][i], Terminators)
         /\ Strip(ret[p][1][i]) = ret[p][1][i]
    /\ loc[p].text = Texts.bare => ret[p][1] = << Texts.bare \o << "." >> >>

\* "Hello world. Foo bar!" gave "Hello world." and "Foo bar!"
C25_Witness ==
  /\ Returned("split_into_sentences")
  /\ loc[Caller].text = Texts.two
  /\ ret[Caller][1] = << SubSeq(Texts.two, 1, 12), SubSeq(Texts.two, 14, 21) >>

\* ------------------------------------------------------- C26
\* the text of request k (empty when the body has no field "text")
RequestText(k) == IF Requests[k] = << >> THEN << >> ELSE Requests[k][1]

\* the positions of a text that remain when its leading and trailing
\* whitespace is dropped
TrimmedPositions(text) ==
  LET leading == SkipRun(text, 1, Whitespace) - 1
      trailing == SkipRun([i \in 1..Len(text) |-> text[Len(text) + 1 - i]], 1,
                          Whitespace) - 1
  IN  (leading + 1)..(Len(text) - trailing)

\* the characters of the lower-case form of the positions of a text
LoweredChars(text, positions) ==
  UNION {IF text[i] \in Uppers THEN {LowerOf[text[i]]}
         ELSE IF text[i] = DottedCapitalI THEN {"i", CombiningDot}
         ELSE {text[i]} : i \in positions}

\* request k carries a text of trimmed length 50..10000 with at least 10
\* distinct characters after lower-casing
Acceptable ==
  [k \in DOMAIN Requests |->
     /\ Requests[k] # << >>
     /\ Cardinality(TrimmedPositions(RequestText(k))) >= 50
     /\ Cardinality(TrimmedPositions(RequestText(k))) <= 10000
     /\ Cardinality(LoweredChars(RequestText(k), TrimmedPositions(RequestText(k)))) >= 10]

\* a step that is a call of the start view on request k
StartViewStep(k) ==
  /\ calls' = calls + 1
  /\ op'[Caller] = "start_processing_view"
  /\ loc'[Caller].text = RequestText(k)

\* C26: the start view accepts a request only if its text has a trimmed
\* length of 50 to 10000 characters and at least 10 distinct characters after
\* lower-casing; every other request is answered 400, and a request answered
\* 400 has created no submission, stored nothing and called no endpoint.
C26_OnlyValidTextsAccepted ==
  [][\A k \in DOMAIN Requests :
       StartViewStep(k) =>
         /\ ~Acceptable[k] => ret'[Caller][1].status_code = 400
         /\ ret'[Caller][1].status_code = 400 =>
              /\ submissions' = submissions
              /\ summaries' = summaries
              /\ fragments' = fragments
              /\ api_calls'[Caller] = 0]_vars

\* a text of 52 characters, 49 of them after trimming, was rejected and the
\* store holds the initial submission only
C26_Witness ==
  /\ Returned("start_processing_view")
  /\ Len(loc[Caller].text) = 52
  /\ ret[Caller][1].status_code = 400
  /\ DOMAIN submissions = {1}
  /\ summaries = {}

\* ------------------------------------------------------- C27
\* a step that is a call of the results view
ResultsStep ==
  /\ calls' = calls + 1
  /\ op'[Caller] = "get_processing_results"

\* C27: the results view answers with the compiled document only for a
\* completed submission; for a pending, processing or failed one it answers
\* 400 with the submission's current status and no document; it changes
\* nothing in the store.
C27_ResultsOnlyWhenCompleted ==
  [][ResultsStep =>
       LET s == loc'[Caller].sub
           response == ret'[Caller][1]
       IN  /\ << submissions', summaries', fragments' >> =
                << submissions, summaries, fragments >>
           /\ response.data # None =>
                /\ s \in DOMAIN submissions
                /\ submissions[s].status = "completed"
                /\ response.status_code = 200
                /\ response.data[1].submission_id = s
                /\ response.data[1].status = "completed"
           /\ (s \in DOMAIN submissions /\ submissions[s].status = "completed") =>
                response.data # None
           /\ (s \in DOMAIN submissions /\ submissions[s].status # "completed") =>
                /\ response.status_code = 400
                /\ response.current_status = submissions[s].status
                /\ response.current_status \in {"pending", "processing", "failed"}]_vars

\* the results of a submission the start view left in processing were asked
\* for and refused
C27_Witness ==
  /\ Returned("get_processing_results")
  /\ loc[Caller].sub \in DOMAIN submissions
  /\ submissions[loc[Caller].sub].status = "processing"
  /\ ret[Caller][1].status_code = 400
  /\ ret[Caller][1].current_status = "processing"
  /\ ret[Caller][1].data = None

\* ------------------------------------------------------- C28
\* the records of submission s in a store: its row, its summaries without
\* their keys, its fragments
RecordsOf(s, submission_table, summary_table, fragment_table) ==
  << submission_table[s],
     {<< r.summary_type, r.content >> : r \in {x \in summary_table : x.submission = s}},
     fragment_table[s] >>

\* caller p takes this step
Steps(p) ==
  \/ pc'[p] # pc[p] \/ op'[p] # op[p] \/ loc'[p] # loc[p]
  \/ api_calls'[p] # api_calls[p]

\* the records a returning pipeline run of p leaves for its submission are
\* those its own endpoint answers define: S1 with the summary it received,
\* one S2, its ten quotes as the last F1 rows, numbered 1..10, its
\* justifications as the F2 rows, the status completed
OwnOutcome(p) ==
  LET s == loc'[p].sub
      f1 == OfType(fragments'[s], "F1")
      f2 == OfType(fragments'[s], "F2")
      pairs == loc'[p].justifications
  IN  /\ submissions'[s].status = "completed"
      /\ {<< r.summary_type, r.content >> : r \in {x \in summaries' : x.submission = s}}
           \in {{<< "S1", loc'[p].s1_content >>, << "S2", Strip(a.text) >>} :
                   a \in {x \in S2Answers : x.kind = "content"}}
      /\ Len(f1) >= 10
      /\ \A i \in 1..10 :
           /\ f1[Len(f1) - 10 + i].content = loc'[p].f1_fragments[i]
           /\ f1[Len(f1) - 10 + i].sequence_number = i
           /\ f1[Len(f1) - 10 + i].submission = s
      /\ Len(f2) = Len(pairs)
      /\ \A i \in 1..Len(f2) :
           /\ f2[i].content = pairs[i][2]
           /\ f2[i].related_sentence = Some(pairs[i][1])
           /\ f2[i].submission = s

\* C28: pipeline runs on distinct submissions do not affect each other.  A
\* step of a caller leaves the records of every submission but its own as
\* they are; a run fails on a uniqueness violation only because of a summary
\* of its own submission; and the records a returning run leaves for its
\* submission are those its own endpoint answers define.
C28_RunsAreIndependent ==
  [][\A p \in Procs :
       Steps(p) =>
         /\ \A o \in DOMAIN submissions \ {loc'[p].sub} :
              RecordsOf(o, submissions', summaries', fragments') =
                RecordsOf(o, submissions, summaries, fragments)
         /\ (op[p] = "process_text_submission" /\ pc'[p] = "raised"
               /\ err'[p] = UniqueViolationText) =>
              \E r \in summaries :
                /\ r.submission = loc[p].sub
                /\ r.summary_type = (IF pc[p] = "s1" THEN "S1" ELSE "S2")
         /\ (op[p] = "process_text_submission" /\ pc[p] = "f2"
               /\ pc'[p] = "returned") => OwnOutcome(p)]_vars

\* two runs on two submissions interleaved and both returned
C28_Witness ==
  /\ \A p \in Procs : op[p] = "process_text_submission" /\ pc[p] = "returned"
  /\ loc["w1"].sub # loc["w2"].sub
  /\ \A s \in DOMAIN submissions :
       /\ submissions[s].status = "completed"
       /\ Len(fragments[s]) = 12

\* ------------------------------------------------------- C29
\* the rows of one kind of a submission are those of whole stage runs: they
\* come in runs of n rows numbered 1..n
WholeRuns(rows, n) ==
  IF n = 0 THEN rows = << >>
  ELSE /\ Len(rows) % n = 0
       /\ \A i \in 1..Len(rows) : rows[i].sequence_number = ((i - 1) % n) + 1

\* the Fragment table holds the fragments of whole stage runs only
StageRunsWhole(fragment_table, summary_table) ==
  \A s \in DOMAIN fragment_table :
    /\ WholeRuns(OfType(fragment_table[s], "F1"), FragmentCount)
    /\ \A r \in summary_table :
         (r.submission = s /\ r.summary_type = "S1") =>
           WholeRuns(OfType(fragment_table[s], "F2"),
                     Len(split_into_sentences(r.content)))
    /\ (\A r \in summary_table : ~(r.submission = s /\ r.summary_type = "S1")) =>
         OfType(fragment_table[s], "F2") = << >>

\* C29: the fragments of a stage run are stored all together and verified.
\* After every step that changes the Fragment table the store holds whole
\* stage runs only (ten F1 rows numbered 1..10 per run, one F2 row per
\* sentence of S1 per run) and every row the step added or changed carries
\* the verifier's result for its content; a step that ends in a failure
\* leaves the Fragment table as it was.
C29_StageFragmentsAllOrNone ==
  [][/\ fragments' # fragments =>
          /\ StageRunsWhole(fragments', summaries')
          /\ \A s \in DOMAIN fragments' : \A i \in 1..Len(fragments'[s]) :
               (i > Len(fragments[s]) \/ fragments'[s][i] # fragments[s][i]) =>
                 CarriesResult(fragments'[s][i], OriginalText(s))
     /\ \A p \in Procs :
          (pc[p] \in {"f1", "f2"} /\ pc'[p] = "raised") => fragments' = fragments]_vars

\* the database failed inside the F1 stage of a second run: the ten rows of
\* the first run are all there is
C29_Witness ==
  \E p \in Procs :
    /\ pc[p] = "raised"
    /\ err[p] = << "d", "a", "t", "a", "b", "a", "s", "e", " ", "i", "s", " ",
                   "l", "o", "c", "k", "e", "d" >>
    /\ Len(fragments[loc[p].sub]) = 10
    /\ submissions[loc[p].sub].status = "failed"

\* ------------------------------------------------------- C30
\* the pairs of positions a full-pipeline run passes through
PipelineOrder ==
  {<< x, "s1" >> : x \in {"idle", "returned", "raised"}}
    \cup {<< "s1", "f1" >>, << "f1", "s2" >>, << "s2", "f2" >>, << "f2", "returned" >>}
    \cup {<< x, "raised" >> : x \in {"s1", "f1", "s2", "f2"}}

\* the summary of a kind stored for submission s has the content
StoredSummary(summary_table, s, summary_type, content) ==
  \E r \in summary_table :
    r.submission = s /\ r.summary_type = summary_type /\ r.content = content

\* C30: a full-pipeline run goes through its steps in order.  Its positions
\* follow start_processing and the S1 call, the F1 call, the S2 call, the F2
\* calls, the return; the submission is processing while a stage call is
\* awaited; when the F1 call is issued S1 is stored, when the S2 call is issued
\* the ten F1 rows are stored and verified and the call carries their
\* contents and not the original text, when the F2 calls are issued S2 is
\* stored; and the run sets the status completed only at the end, with both
\* summaries, the F1 rows and one F2 row per sentence of S1 stored.
C30_PipelineOrder ==
  [][op'[Caller] = "process_text_submission" =>
       LET p == Caller
           s == loc'[p].sub
           f1 == OfType(fragments'[s], "F1")
           f2 == OfType(fragments'[s], "F2")
       IN  /\ pc'[p] # pc[p] => << pc[p], pc'[p] >> \in PipelineOrder
           /\ pc'[p] \in {"s1", "f1", "s2", "f2"} =>
                /\ submissions'[s].status = "processing"
                /\ submissions'[s].processing_started_at # None
                /\ service_call(p)'.call # ""
           /\ pc'[p] \in {"f1", "s2", "f2"} =>
                StoredSummary(summaries', s, "S1", loc'[p].s1_content)
           /\ pc'[p] \in {"s2", "f2"} =>
                /\ Len(f1) >= 10
                /\ \A i \in 1..10 :
                     /\ f1[Len(f1) - 10 + i].content = loc'[p].f1_fragments[i]
                     /\ CarriesResult(f1[Len(f1) - 10 + i], OriginalText(s))
           /\ pc'[p] = "s2" =>
                /\ service_call(p)'.call = "generate_secondary_summary"
                /\ service_call(p)'.fragments =
                     [i \in 1..10 |-> f1[Len(f1) - 10 + i].content]
                /\ service_call(p)'.original_text = << >>
           /\ pc'[p] = "f2" =>
                \E r \in summaries' : r.submission = s /\ r.summary_type = "S2"
           /\ submissions'[s].status # submissions[s].status =>
                \/ pc'[p] = "s1" /\ submissions'[s].status = "processing"
                \/ pc'[p] = "raised" /\ submissions'[s].status = "failed"
                \/ /\ << pc[p], pc'[p] >> = << "f2", "returned" >>
                   /\ submissions'[s].status = "completed"
                   /\ \E r \in summaries' : r.submission = s /\ r.summary_type = "S2"
                   /\ Len(f2) = Len(split_into_sentences(loc'[p].s1_content))
                   /\ api_calls'[p] = 3 + Len(f2)]_vars

\* a run awaits the answer to the S2 call: the ten quotes are stored and the
\* submission is processing
C30_Witness ==
  /\ op[Caller] = "process_text_submission" /\ pc[Caller] = "s2"
  /\ Len(fragments[loc[Caller].sub]) = 10
  /\ service_call(Caller).fragments = loc[Caller].f1_fragments
  /\ submissions[loc[Caller].sub].status = "processing"

\* ------------------------------------------------------- C31
\* C31: a status is stored together with its timestamp (and, for failed, the
\* error message), also when pipeline runs on their own in-memory copies of
\* one submission interleave: a processing submission has its start time, a
\* completed or failed one its completion time, a failed one its message.
C31_StatusWithTimestamp ==
  \A s \in DOMAIN submissions :
    /\ submissions[s].status = "processing" =>
         submissions[s].processing_started_at # None
    /\ submissions[s].status \in {"completed", "failed"} =>
         submissions[s].processing_completed_at # None
    /\ submissions[s].status = "failed" => submissions[s].error_message # None

\* one run marked the submission failed and the other, on its own copy,
\* marked it completed afterwards
C31_Witness ==
  \E s \in DOMAIN submissions :
    /\ submissions[s].status = "completed"
    /\ submissions[s].error_message # None
    /\ \E p \in Procs : pc[p] = "raised" /\ loc[p].sub = s

\* ------------------------------------------------------- C32
\* the outcome of the sliding-window scan of the trimmed content
Scan(content, original_text, fz) ==
  SlideWindows(Strip(content), original_text, fz, 0,
               [best_score |-> Pct(0), best_match |-> None])

\* the result r of the fuzzy tiers agrees with the claim, the scan having
\* ended with slid, for the words fw of the content and tw of the text
WordOverlapRule(r, slid, fw, tw) ==
  LET pct == << Cardinality(fw \cap tw) * 100, Cardinality(fw) >>
      tried == ScoreLT(slid.best_score, Pct(50)) /\ fw # {} /\ tw # {}
  IN  /\ r.match_type = "word_overlap" =>
           /\ tried
           /\ ScoreGT(pct, slid.best_score)
           /\ r.similarity_score = pct
           /\ r.start_position = None /\ r.end_position = None
           /\ r.verified <=> ScoreGE(pct, Pct(70))
      /\ (tried /\ ScoreGT(pct, slid.best_score)) => r.match_type = "word_overlap"
      /\ ~(tried /\ ScoreGT(pct, slid.best_score)) =>
           r = (IF slid.best_match = None THEN NoMatch ELSE slid.best_match[1])
      /\ ScoreGE(slid.best_score, Pct(50)) => r.match_type # "word_overlap"

\* C32: in the scored verifier the word-overlap percentage counts only when
\* the best window scored under 50 and replaces the result only when it is
\* greater than that score; the replaced result is word_overlap without
\* offsets, verified iff the percentage is at least 70; a window result of
\* 50 or more is never replaced.
C32_WordOverlapBelowFifty ==
  (/\ Scored
   /\ Find(TheText, Strip(TheFragment.content)) = -1
   /\ Find(Lower(TheText), Lower(Strip(TheFragment.content))) = -1) =>
    LET \* the rule holds for each of the oracles that give the result
        holds(oracles) ==
          /\ oracles # {}
          /\ \A fz \in oracles :
               WordOverlapRule(ret[Caller][1],
                               Scan(TheFragment.content, TheText, fz),
                               WordSet(Lower(Strip(TheFragment.content))),
                               WordSet(Lower(TheText)))
    IN  holds({fz \in VerifierOracles :
                 ret[Caller][1] =
                   calculate_similarity_scores(TheFragment.content, TheText, fz)})

\* a word_overlap result that is verified and has no offsets
C32_Witness ==
  /\ Scored
  /\ ret[Caller][1].match_type = "word_overlap"
  /\ ret[Caller][1].verified
  /\ ret[Caller][1].start_position = None

\* the starts of the windows the sliding-window loop scans
ScannedWindows(content, original_text) ==
  {i \in 0..(Len(original_text) - Len(content)) :
     i % (IF Len(content) \div 4 > 1 THEN Len(content) \div 4 ELSE 1) = 0}

\* the first scanned window whose combined score is the maximum
BestWindow(content, original_text, fz) ==
  LET W == ScannedWindows(content, original_text)
      top == {i \in W : \A j \in W : ScoreGE(CombinedScore(fz[i]), CombinedScore(fz[j]))}
  IN  CHOOSE i \in top : \A j \in top : i <= j

\* the partial result r reports the score of the best window and the place
\* of the longest matching block in it
ReportsBestWindow(r, content, original_text, fz, best) ==
  LET size == IF Len(content) + 100 < Len(original_text)
              THEN Len(content) + 100 ELSE Len(original_text)
      block == LongestMatch(content, Slice(original_text, best, best + size))
  IN  /\ r.similarity_score = CombinedScore(fz[best])
      /\ r.start_position = Some(best + block.b)
      /\ r.end_position = Some(best + block.b + block.size)

\* C33: a partial result of the scored verifier reports the maximum combined
\* score over all scanned windows, and its offsets are the absolute position
\* of the longest contiguous matching block inside the first window that
\* achieves that maximum.
C33_PartialReportsBestWindow ==
  (Scored /\ ret[Caller][1].match_type = "partial") =>
    \A fz \in VerifierOracles :
      ret[Caller][1] = calculate_similarity_scores(TheFragment.content, TheText, fz) =>
        ReportsBestWindow(ret[Caller][1], Strip(TheFragment.content), TheText, fz,
                          BestWindow(Strip(TheFragment.content), TheText, fz))

\* C34: a progressive stage view (extract-f1, generate-s2, extract-f2,
\* verify) invoked for a failed submission answers with an error and does not
\* run the processor: no row is created, and the submission's status and
\* timestamps stay as they were.
C34_FailedSubmissionRefused ==
  [][\A s \in DOMAIN submissions, view \in StageViews :
       (submissions[s].status = "failed" /\ StageView(Caller, s, view)) =>
         /\ pc'[Caller] = "returned"
         /\ op'[Caller] \notin StageViews
         /\ api_calls'[Caller] = 0
         /\ ret'[Caller] # None
         /\ ret'[Caller][1].status_code = 400
         /\ ret'[Caller][1].view = view
         /\ summaries' = summaries
         /\ fragments' = fragments
         /\ submissions' = submissions
         /\ submissions'[s].status = "failed"]_vars

\* the verify view was refused for a failed submission that has stored rows
C34_Witness ==
  /\ op[Caller] = "stage_view" /\ pc[Caller] = "returned"
  /\ ret[Caller][1].view = "complete_verification"
  /\ submissions[loc[Caller].sub].status = "failed"
  /\ submissions[loc[Caller].sub].processing_started_at # None
  /\ \E r \in summaries : r.submission = loc[Caller].sub

\* the response has a line that is an item of a numbered list
HasNumberedLine(response) ==
  \E line \in StrippedLines(response) : NumberedLine(line)

\* C35: when the endpoint answers with an empty response or, for the fragment
\* extraction, with a text that is not a numbered list, or when the call
\* fails, the client raises an error: no fragment list derived from an empty
\* or malformed response is ever returned.
C35_MalformedResponseRaises ==
  \A p \in Procs :
    (op[p] = "extract_fragments" /\ pc[p] = "returned") =>
      /\ loc[p].response # << >>
      /\ HasNumberedLine(loc[p].response)

\* C36: for every stored fragment, after any sequence of verifications
\* (verify_against_text and the legacy bulk_verify_fragments), verified
\* holds exactly when similarity_score is at least 70.
C36_VerifiedIffScoreAtLeast70 ==
  \A s \in DOMAIN fragments :
    \A i \in 1..Len(fragments[s]) :
      fragments[s][i].verified <=> ScoreGE(fragments[s][i].similarity_score, Pct(70))

\* both offsets of r absent, or both present and within the text
OffsetsWithin(r, original_text) ==
  /\ r.start_position = None <=> r.end_position = None
  /\ r.start_position # None =>
       /\ 0 <= r.start_position[1]
       /\ r.start_position[1] <= r.end_position[1]
       /\ r.end_position[1] <= Len(original_text)

\* C37: in every verification result and on every stored fragment,
\* start_position is null iff end_position is null, and when present
\* 0 <= start_position <= end_position <= len(original_text).
C37_OffsetsWithinText ==
  /\ \A s \in DOMAIN fragments :
       \A i \in 1..Len(fragments[s]) : OffsetsWithin(fragments[s][i], OriginalText(s))
  /\ (pc[Caller] = "returned"
      /\ op[Caller] \in {"calculate_similarity_scores", "verify_fragment_in_text"}) =>
       OffsetsWithin(ret[Caller][1], TheText)

\* the same for the texts whose lower-case form has the length of the text
C37_OffsetsWithinText_same_length ==
  (\A s \in DOMAIN fragments : Len(Lower(OriginalText(s))) = Len(OriginalText(s)))
    => C37_OffsetsWithinText

\* C38: a submission carries an error message only while its status is
\* failed: after any sequence of start_processing, mark_completed,
\* mark_failed, process_text_submission and complete_verification calls no
\* pending, processing or completed submission has an error_message.
C38_ErrorMessageOnlyWhenFailed ==
  \A s \in DOMAIN submissions :
    submissions[s].status \in {"pending", "processing", "completed"} =>
      submissions[s].error_message = None

\* the call returned for a content that, trimmed, is longer than the text
LongerThanText ==
  Scored /\ Len(Strip(TheFragment.content)) > Len(TheText)

\* C39: when the trimmed content is longer than the original text the
\* sliding-window scan evaluates no window, so the scored verifier never
\* returns partial for it: the result is word_overlap or no_match, with null
\* offsets.
C39_LongerContentNeverPartial ==
  LongerThanText =>
    /\ ScannedWindows(Strip(TheFragment.content), TheText) = {}
    /\ ret[Caller][1].match_type \in {"word_overlap", "no_match"}
    /\ ret[Caller][1].start_position = None
    /\ ret[Caller][1].end_position = None

\* the same for the texts whose lower-case form has the length of the text
C39_LongerContentNeverPartial_same_length ==
  Len(Lower(TheText)) = Len(TheText) => C39_LongerContentNeverPartial

\* no window is scanned and the result is not partial, whatever the text
C39_NoWindowNoPartial ==
  LongerThanText =>
    /\ ScannedWindows(Strip(TheFragment.content), TheText) = {}
    /\ ret[Caller][1].match_type # "partial"

\* the returned sentence, its last character replaced by one of the three
\* marks, occurs in the text: the sentence was punctuated in the input
PunctuatedIn(sentence, text) ==
  \E mark \in {".", "!", "?"} :
    Find(text, SubSeq(sentence, 1, Len(sentence) - 1) \o << mark >>) # -1

\* C40: every sentence split_into_sentences returns keeps the terminal
\* punctuation it had in the text: one that ends with '?' or '!' there is
\* returned with that character, so each returned sentence that was
\* punctuated in the text is a substring of the text.
C40_SentencesKeepPunctuation ==
  \A p \in Procs :
    (op[p] = "split_into_sentences" /\ pc[p] = "returned") =>
      \A i \in 1..Len(ret[p][1]) :
        PunctuatedIn(ret[p][1][i], loc[p].text) =>
          Find(loc[p].text, ret[p][1][i]) # -1

====
